---- MODULE Spec2Model ----
(***************************************************************************)
(* Prospect Discovery Pipeline of bd-automation-suite                      *)
(* (modules/prospect_research, shared/odoo_client.py).                     *)
(*                                                                         *)
(* Strings are sequences of character codes (ASCII), so that lower(),      *)
(* strip(), substring tests and the fuzzy ratio are computed as the code   *)
(* computes them.  Python's None is the value None below; a Python list is *)
(* a sequence, a Python set a set.                                         *)
(*                                                                         *)
(* Specifications:                                                         *)
(*   SpecDedup    deduplicator.is_duplicate over OdooClient.search_duplicate*)
(*   Spec         main.run(), the orchestrator                             *)
(*   SpecAdapters GoogleMapsAdapter.fetch and TradeDataAdapter.fetch       *)
(*   SpecFunctions the functions that only compute a value                 *)
(*   SpecPipeline  a run of run(), or one fetch() call on one adapter      *)
(*   SpecSearch    one _search_text call of GoogleMapsAdapter, with fairness*)
(***************************************************************************)
EXTENDS Integers, Sequences, FiniteSets, TLC

VARIABLES
    \* ---- deduplicator / system of record (SpecDedup) ----
    leads,        \* crm.lead rows of the system of record: a set of records
    d_pc,         \* "idle" | "returned" | "raised"
    d_rec,        \* the candidate ProspectRecord given to is_duplicate
    d_match_on,   \* dedup.match_on of the stream
    d_result,     \* the value is_duplicate returned
    d_queries,    \* number of search_duplicate calls issued by the last call
    d_matches,    \* what search_duplicate returned to the last call
    \* ---- main.run() and main.main() (Spec) ----
    r_pc,         \* "connect" | "resolve" | "fetch" | "dedup" | "state_ids" |
                  \* "persist" | "returned" | "raised"
    r_env,        \* the run's inputs: [creds, dry_run, limit, enabled, match_on,
                  \* gm_api_key]
    r_ids,        \* [stage, country]: the resolved identifiers ({} is None)
    r_ai,         \* index into ADAPTERS of the adapter the fetch loop is at
    r_fetchLog,   \* history: one entry per fetch() call, in call order
    all_records,
    new_records,
    duplicate_records,
    r_i,          \* index into new_records of the persist loop
    r_counts,     \* [created, skipped_limit, errors] of the persist loop
    r_createLog,  \* history: one entry per record that passed the cap check
    summary,      \* the dict run() returned: a function from keys to counts
    r_raisedIn,   \* where the exception that ended run() came from
    exit_code,    \* the argument of sys.exit in main(); {} while running
    \* ---- one fetch() call on one adapter (SpecAdapters) ----
    a_adapter,    \* the adapter's name
    a_calls,      \* number of fetch() calls made on the adapter instance so far
    a_pc,         \* "start" | "paging" | "collect" | "codes" | "returned" | "raised"
    a_out,        \* the list fetch() returned
    gm,           \* GoogleMapsAdapter.fetch: its arguments, locals and history
    td,           \* TradeDataAdapter.fetch: its arguments, locals, cache and history
    \* ---- one call of a function without side effects (SpecFunctions) ----
    f_fn,         \* the function's name
    f_pc,         \* "off" | "call" | "returned"
    f_args,       \* its arguments
    f_ret         \* what it returned

dedupVars == <<leads, d_pc, d_rec, d_match_on, d_result, d_queries, d_matches>>

runVars == <<r_pc, r_env, r_ids, r_ai, r_fetchLog, all_records, new_records,
             duplicate_records, r_i, r_counts, r_createLog, summary,
             r_raisedIn, exit_code>>

adapterVars == <<a_adapter, a_calls, a_pc, a_out, gm, td>>

fnVars == <<f_fn, f_pc, f_args, f_ret>>

vars == <<dedupVars, runVars, adapterVars, fnVars>>

----------------------------------------------------------------------------
(* Bounds of the model *)

\* longest company name drawn as an input
MaxNameLen == 3
\* most rows the system of record holds
MaxLeads == 1
\* most records the adapters return to run() in one run
MaxFetch == 3
\* largest --limit drawn as an input
MaxLimit == 2
\* most page requests of one query the model follows
MaxPages == 2
\* most fetch() calls made on one adapter instance
MaxCalls == 2
\* most fields besides the name a record is given in a to_odoo_values call
MaxSetFields == 2
\* most name selectors that match in one card
MaxMatches == 2
\* most comma-separated pieces of a formatted address
MaxParts == 4
\* most cards of a page given to one _parse_company_cards call
MaxCards == 2

----------------------------------------------------------------------------
(* Python values *)

None == <<-1>>

\* Python truthiness of an Optional[str]
Truthy(s) == s # None /\ s # <<>>

\* `x or y` on Optional[str]
OrElse(x, y) == IF Truthy(x) THEN x ELSE y

Min(a, b) == IF a <= b THEN a ELSE b
Max(a, b) == IF a >= b THEN a ELSE b

SPACE == 32

\* str.lower() on ASCII
Lower(s) == [i \in 1..Len(s) |-> IF s[i] \in 65..90 THEN s[i] + 32 ELSE s[i]]

\* str.upper() on ASCII
Upper(s) == [i \in 1..Len(s) |-> IF s[i] \in 97..122 THEN s[i] - 32 ELSE s[i]]

RECURSIVE LStrip(_)
LStrip(s) == IF s # <<>> /\ Head(s) = SPACE THEN LStrip(Tail(s)) ELSE s

RECURSIVE RStrip(_)
RStrip(s) ==
    IF s # <<>> /\ s[Len(s)] = SPACE THEN RStrip(SubSeq(s, 1, Len(s) - 1)) ELSE s

\* str.strip()
Strip(s) == RStrip(LStrip(s))

\* `needle in hay` on strings
Contains(hay, needle) ==
    \E i \in 0..(Len(hay) - Len(needle)) :
        SubSeq(hay, i + 1, i + Len(needle)) = needle

\* s[:n]
Prefix(s, n) == SubSeq(s, 1, Min(n, Len(s)))

\* Python's < on strings (lexicographic by code point)
RECURSIVE StrLess(_, _)
StrLess(s, t) ==
    IF t = <<>> THEN FALSE
    ELSE IF s = <<>> THEN TRUE
    ELSE IF Head(s) # Head(t) THEN Head(s) < Head(t)
    ELSE StrLess(Tail(s), Tail(t))

\* str.split(): the whitespace-separated tokens, in order
RECURSIVE SplitAcc(_, _, _)
SplitAcc(s, cur, acc) ==
    IF s = <<>> THEN (IF cur = <<>> THEN acc ELSE Append(acc, cur))
    ELSE IF Head(s) = SPACE
         THEN SplitAcc(Tail(s), <<>>, IF cur = <<>> THEN acc ELSE Append(acc, cur))
         ELSE SplitAcc(Tail(s), Append(cur, Head(s)), acc)

Split(s) == SplitAcc(s, <<>>, <<>>)

\* sorted(tokens)
RECURSIVE InsertSorted(_, _)
InsertSorted(tok, sorted) ==
    IF sorted = <<>> THEN <<tok>>
    ELSE IF StrLess(tok, Head(sorted)) THEN <<tok>> \o sorted
    ELSE <<Head(sorted)>> \o InsertSorted(tok, Tail(sorted))

RECURSIVE SortTokens(_)
SortTokens(toks) ==
    IF toks = <<>> THEN <<>> ELSE InsertSorted(Head(toks), SortTokens(Tail(toks)))

\* " ".join(tokens)
RECURSIVE JoinSpace(_)
JoinSpace(toks) ==
    IF toks = <<>> THEN <<>>
    ELSE IF Len(toks) = 1 THEN Head(toks)
    ELSE Head(toks) \o <<SPACE>> \o JoinSpace(Tail(toks))

\* length of a longest common subsequence
RECURSIVE LCS(_, _)
LCS(s, t) ==
    IF s = <<>> \/ t = <<>> THEN 0
    ELSE IF Head(s) = Head(t) THEN 1 + LCS(Tail(s), Tail(t))
    ELSE Max(LCS(Tail(s), t), LCS(s, Tail(t)))

\* fuzz.ratio: 100 * 2*LCS / (len1 + len2), rounded to an integer
Ratio(s, t) ==
    IF Len(s) + Len(t) = 0 THEN 100
    ELSE (400 * LCS(s, t) + (Len(s) + Len(t))) \div (2 * (Len(s) + Len(t)))

\* utils.full_process on the model's alphabet (letters and spaces): lower, strip
FullProcess(s) == Strip(Lower(s))

\* fuzz.token_sort_ratio(s1, s2)
TokenSortRatio(s1, s2) ==
    Ratio(JoinSpace(SortTokens(Split(FullProcess(s1)))),
          JoinSpace(SortTokens(Split(FullProcess(s2)))))

----------------------------------------------------------------------------
(* The system of record (Odoo crm.lead) as OdooClient sees it *)

FUZZY_MATCH_THRESHOLD == 85
\* partner_name[:5], the coarse pre-filter of search_duplicate
COARSE_PREFIX_LEN == 5
\* limit=50 of the search_read issued by search_duplicate
SEARCH_LIMIT == 50

\* Odoo's `ilike`: case-insensitive substring; an unset column never matches
ILike(field, pattern) == field # None /\ Contains(Lower(field), Lower(pattern))

\* the rows search_read returns for search_duplicate's domain, at most SEARCH_LIMIT
SearchLeads(rows, name_pattern, city) ==
    LET InDomain(r) == /\ ILike(r.partner_name, name_pattern)
                       /\ (Truthy(city) => ILike(r.city, city))
    IN  Prefix(SelectSeq(rows, InDomain), SEARCH_LIMIT)

\* fields=["id", "partner_name", "city", "x_bd_stream"]: the dict of one row
ReadFields(r) == [id |-> r.id, partner_name |-> r.partner_name, city |-> r.city]

\* the ratio search_duplicate computes for one candidate row
FuzzyScore(partner_name, cand_name) ==
    TokenSortRatio(Lower(partner_name), Lower(OrElse(cand_name, <<>>)))

\* ratio >= FUZZY_MATCH_THRESHOLD
IsFuzzyMatch(partner_name, cand_name) ==
    FuzzyScore(partner_name, cand_name) >= FUZZY_MATCH_THRESHOLD

\* OdooClient.search_duplicate(partner_name, city)
SearchDuplicate(rows, partner_name, city) ==
    LET found == SearchLeads(rows, Prefix(partner_name, COARSE_PREFIX_LEN), city)
        cands == [i \in 1..Len(found) |-> ReadFields(found[i])]
        Hit(c) == IsFuzzyMatch(partner_name, c.partner_name)
    IN  SelectSeq(cands, Hit)

----------------------------------------------------------------------------
(* deduplicator.py *)

\* `not record.partner_name or not record.partner_name.strip()`
NameMissing_NoStrip(rec) == ~Truthy(rec.partner_name)

NameMissing(rec) == ~Truthy(rec.partner_name) \/ ~Truthy(Strip(rec.partner_name))

\* m.get("street")
GetStreet(m) == IF "street" \in DOMAIN m THEN m.street ELSE None

\* (m.get("street") or "").lower().strip() == record.street.lower().strip()
StreetMatches(m, rec) ==
    Strip(Lower(OrElse(GetStreet(m), <<>>))) = Strip(Lower(rec.street))

\* the city handed to search_duplicate
QueryCity(rec, match_on) == IF "city" \in match_on THEN rec.city ELSE None

\* the matches left after the optional street restriction
NarrowByStreet(matches, rec, match_on) ==
    LET Same(m) == StreetMatches(m, rec)
    IN  IF "street" \in match_on /\ Truthy(rec.street)
        THEN SelectSeq(matches, Same)
        ELSE matches

\* is_duplicate(record, odoo, match_on) when search_duplicate returns:
\* the value returned, the number of queries issued and the rows they returned
IsDuplicate(rec, match_on, rows) ==
    IF NameMissing(rec)
    THEN [dup |-> FALSE, queries |-> 0, matches |-> <<>>]
    ELSE LET Answer(matches) ==
                 [dup |-> NarrowByStreet(matches, rec, match_on) # <<>>,
                  queries |-> 1,
                  matches |-> matches]
         IN  Answer(SearchDuplicate(rows, rec.partner_name, QueryCity(rec, match_on)))

----------------------------------------------------------------------------
(* Inputs of the deduplicator *)

NameChars == {32, 65, 97, 98}

StringsUpTo(chars, n) == UNION {[1..k -> chars] : k \in 0..n}

Names == StringsUpTo(NameChars, MaxNameLen)

\* rows other users of the system of record may have stored
LeadPool ==
    { [partner_name |-> <<97, 32, 98>>,     city |-> <<97>>,     street |-> <<97>>],
      [partner_name |-> <<98, 32, 97>>,     city |-> <<97>>,     street |-> <<98>>],
      [partner_name |-> <<97, 98, 97, 98>>, city |-> <<97, 98>>, street |-> None],
      [partner_name |-> <<65, 66>>,         city |-> <<65>>,     street |-> <<65>>] }

CandidateCities == {None, <<97>>, <<98>>}
CandidateStreets == {None, <<65>>}

Candidates ==
    [partner_name : Names, city : CandidateCities, street : CandidateStreets]

MatchOnConfigs ==
    { {"partner_name"}, {"partner_name", "city"},
      {"partner_name", "street"}, {"partner_name", "city", "street"} }

\* a row as stored: its id is its position
StoreRow(rows, l) ==
    Append(rows, [id |-> Len(rows) + 1, partner_name |-> l.partner_name,
                  city |-> l.city, street |-> l.street])

NoRecord == [partner_name |-> None, city |-> None, street |-> None]

\* no fetch() call is modelled
GMIdle ==
    gm = [cfg |-> <<>>, qi |-> 0, ci |-> 0, records |-> <<>>, page_token |-> FALSE,
          fetched |-> 0, pages |-> 0, seen_place_ids |-> {}, all_records |-> <<>>,
          events |-> <<>>, searched |-> <<>>, units |-> <<>>, requests |-> <<>>]

TDIdle ==
    td = [cfg |-> <<>>, hi |-> 0, url_cache |-> <<>>, seen_names |-> {},
          all_records |-> <<>>, requests |-> <<>>, parsed |-> <<>>, by_code |-> <<>>]

AdaptersIdle ==
    /\ a_adapter = "none"
    /\ a_calls = 0
    /\ a_pc = "off"
    /\ a_out = <<>>
    /\ GMIdle
    /\ TDIdle

\* no function call is followed
FunctionsIdle ==
    /\ f_fn = "none"
    /\ f_pc = "off"
    /\ f_args = <<>>
    /\ f_ret = <<>>

\* run() is not running
RunIdle ==
    /\ r_pc = "off"
    /\ r_env = [creds |-> FALSE, dry_run |-> FALSE, limit |-> {},
                enabled |-> {}, match_on |-> {}]
    /\ r_ids = [stage |-> {}, country |-> {}]
    /\ r_ai = 0
    /\ r_fetchLog = <<>>
    /\ all_records = <<>>
    /\ new_records = <<>>
    /\ duplicate_records = <<>>
    /\ r_i = 0
    /\ r_counts = [created |-> 0, skipped_limit |-> 0, errors |-> 0]
    /\ r_createLog = <<>>
    /\ summary = <<>>
    /\ r_raisedIn = "nothing"
    /\ exit_code = {}

DedupInit ==
    /\ FunctionsIdle
    /\ RunIdle
    /\ AdaptersIdle
    /\ leads = <<>>
    /\ d_pc = "idle"
    /\ d_rec = NoRecord
    /\ d_match_on = {}
    /\ d_result = FALSE
    /\ d_queries = 0
    /\ d_matches = <<>>

\* another user of the system of record stores a lead
StoreLead ==
    /\ d_pc = "idle"
    /\ Len(leads) < MaxLeads
    /\ \E l \in LeadPool : leads' = StoreRow(leads, l)
    /\ UNCHANGED <<d_pc, d_rec, d_match_on, d_result, d_queries, d_matches>>
    /\ UNCHANGED <<runVars, adapterVars>>
    /\ UNCHANGED fnVars

\* is_duplicate(rec, odoo, match_on) returns
IsDuplicateReturns ==
    /\ d_pc = "idle"
    /\ \E rec \in Candidates, match_on \in MatchOnConfigs :
          \E r \in {IsDuplicate(rec, match_on, leads)} :
              /\ d_pc' = "returned"
              /\ d_rec' = rec
              /\ d_match_on' = match_on
              /\ d_result' = r.dup
              /\ d_queries' = r.queries
              /\ d_matches' = r.matches
              /\ UNCHANGED <<leads, runVars, adapterVars>>
    /\ UNCHANGED fnVars

\* search_duplicate raises (XML-RPC fault, network): is_duplicate propagates it
IsDuplicateRaises ==
    /\ d_pc = "idle"
    /\ \E rec \in Candidates, match_on \in MatchOnConfigs :
          /\ ~NameMissing(rec)
          /\ d_pc' = "raised"
          /\ d_rec' = rec
          /\ d_match_on' = match_on
          /\ d_result' = FALSE
          /\ d_queries' = 1
          /\ d_matches' = <<>>
          /\ UNCHANGED <<leads, runVars, adapterVars>>
    /\ UNCHANGED fnVars

DedupNext == StoreLead \/ IsDuplicateReturns \/ IsDuplicateRaises

SpecDedup == DedupInit /\ [][DedupNext]_vars

----------------------------------------------------------------------------
(* main.py: run() and main() *)

\* Registry of all available adapters
ADAPTERS == <<"trade_data", "google_maps">>

\* the value of an Optional[int] that is None is {}, of one that is n is {n}
StageIds == {{}, {1}}
CountryIds == {{}, {233}}

\* records the adapters hand to run()
RunRecordPool ==
    { [partner_name |-> <<97, 32, 98>>, city |-> <<97>>, street |-> None,
       state_code |-> <<78, 89>>],
      [partner_name |-> <<98, 32, 97>>, city |-> <<97>>, street |-> None,
       state_code |-> <<78, 89>>],
      [partner_name |-> <<65, 66>>,     city |-> <<65>>, street |-> None,
       state_code |-> None] }

\* rows the system of record may hold when run() starts
RunLeadPool ==
    { [partner_name |-> <<97, 32, 98>>, city |-> <<97>>, street |-> <<97>>] }

SeqsUpTo(S, n) == UNION {[1..k -> S] : k \in 0..n}

RECURSIVE StoresOfLen(_, _)
StoresOfLen(pool, n) ==
    IF n = 0 THEN {<<>>}
    ELSE {StoreRow(st, l) : st \in StoresOfLen(pool, n - 1), l \in pool}

\* what one fetch() call does: it returns a list, or it raises after having
\* collected `records` (which are then lost with its frame)
FetchOutcomes ==
    [raised : {FALSE}, records : SeqsUpTo(RunRecordPool, MaxFetch)]
        \cup [raised : {TRUE}, records : SeqsUpTo(RunRecordPool, 1)]

\* gm_api_key is whether GOOGLE_MAPS_API_KEY is set; it is drawn unset only
\* for a run in which google_maps is enabled with search_queries configured.
\* match_on is run()'s default ["partner_name", "city"]; the other settings
\* are drawn in SpecDedup (MatchOnConfigs)
RunEnvs ==
    {e \in [creds : BOOLEAN, dry_run : BOOLEAN,
            limit : {{}} \cup {{n} : n \in 0..MaxLimit},
            enabled : SUBSET {ADAPTERS[i] : i \in 1..Len(ADAPTERS)},
            match_on : {{"partner_name", "city"}},
            gm_api_key : BOOLEAN] :
        ~e.gm_api_key => "google_maps" \in e.enabled}

\* fetch() of the adapter gets as far as its requests: google_maps' fetch
\* raises from _get_client() before them when the API key is unset
ClientAvailable(adapter) == adapter = "google_maps" => r_env.gm_api_key

DedupIdle ==
    /\ d_pc = "off"
    /\ d_rec = NoRecord
    /\ d_match_on = {}
    /\ d_result = FALSE
    /\ d_queries = 0
    /\ d_matches = <<>>

RunInit ==
    /\ FunctionsIdle
    /\ DedupIdle
    /\ AdaptersIdle
    /\ leads \in UNION {StoresOfLen(RunLeadPool, k) : k \in 0..MaxLeads}
    /\ r_pc = "connect"
    /\ r_env \in RunEnvs
    /\ r_ids = [stage |-> {}, country |-> {}]
    /\ r_ai = 0
    /\ r_fetchLog = <<>>
    /\ all_records = <<>>
    /\ new_records = <<>>
    /\ duplicate_records = <<>>
    /\ r_i = 0
    /\ r_counts = [created |-> 0, skipped_limit |-> 0, errors |-> 0]
    /\ r_createLog = <<>>
    /\ summary = <<>>
    /\ r_raisedIn = "nothing"
    /\ exit_code = {}

\* an exit code that is 1 whenever the summary has an errors key
ExitCodeOf_AnyErrorsKey(s) == IF "errors" \in DOMAIN s THEN {1} ELSE {0}

\* main(): sys.exit(1 if summary.get("errors", 0) > 0 else 0)
ExitCodeOf(s) == IF "errors" \in DOMAIN s /\ s.errors > 0 THEN {1} ELSE {0}

\* run() returns s to main(), which exits
Return(s) ==
    /\ r_pc' = "returned"
    /\ summary' = s
    /\ exit_code' = ExitCodeOf(s)
    /\ UNCHANGED r_raisedIn

\* an exception leaves run(); main() logs it and exits 1
Raise(where) ==
    /\ r_pc' = "raised"
    /\ r_raisedIn' = where
    /\ exit_code' = {1}
    /\ UNCHANGED summary

\* odoo = OdooClient.from_env()
ConnectOdoo ==
    /\ r_pc = "connect"
    /\ IF r_env.creds
       THEN r_pc' = "resolve" /\ UNCHANGED <<summary, r_raisedIn, exit_code>>
       ELSE Raise("from_env")
    /\ UNCHANGED <<adapterVars, dedupVars, r_env, r_ids, r_ai, r_fetchLog, all_records,
                   new_records, duplicate_records, r_i, r_counts, r_createLog>>
    /\ UNCHANGED fnVars

\* a hard stop on either identifier
HardStop_AnyId(stage, country, dry_run) == (stage = {} \/ country = {}) /\ ~dry_run

\* `if research_stage_id is None and not dry_run`
HardStop(stage, country, dry_run) == stage = {} /\ ~dry_run

\* _get_or_warn(get_stage_id), _get_country_id, and the hard stop
ResolveIds ==
    /\ r_pc = "resolve"
    /\ \E stage \in StageIds, country \in CountryIds :
         /\ r_ids' = [stage |-> stage, country |-> country]
         /\ IF HardStop(stage, country, r_env.dry_run)
            THEN Return([created |-> 0, errors |-> 1]) /\ UNCHANGED r_ai
            ELSE /\ r_pc' = "fetch"
                 /\ r_ai' = 1
                 /\ UNCHANGED <<summary, r_raisedIn, exit_code>>
    /\ UNCHANGED <<adapterVars, dedupVars, r_env, r_fetchLog, all_records, new_records,
                   duplicate_records, r_i, r_counts, r_createLog>>
    /\ UNCHANGED fnVars

\* the adapter loop goes on with the next adapter after `except Exception`
OnAdapterException_Stop(ai) == Len(ADAPTERS) + 1

OnAdapterException(ai) == ai + 1

\* `if not adapter.is_enabled(data_sources): continue`
SkipDisabledAdapter ==
    /\ r_pc = "fetch"
    /\ r_ai <= Len(ADAPTERS)
    /\ ADAPTERS[r_ai] \notin r_env.enabled
    /\ r_ai' = r_ai + 1
    /\ UNCHANGED <<adapterVars, dedupVars, r_pc, r_env, r_ids, r_fetchLog, all_records,
                   new_records, duplicate_records, r_i, r_counts, r_createLog,
                   summary, r_raisedIn, exit_code>>
    /\ UNCHANGED fnVars

\* records = adapter.fetch(...); all_records.extend(records)
AdapterReturns ==
    /\ r_pc = "fetch"
    /\ r_ai <= Len(ADAPTERS)
    /\ ADAPTERS[r_ai] \in r_env.enabled
    /\ \E out \in FetchOutcomes :
         /\ ~out.raised
         /\ ClientAvailable(ADAPTERS[r_ai])
         /\ Len(all_records) + Len(out.records) <= MaxFetch
         /\ r_fetchLog' = Append(r_fetchLog,
                [adapter |-> ADAPTERS[r_ai], raised |-> FALSE, records |-> out.records])
         /\ all_records' = all_records \o out.records
    /\ r_ai' = r_ai + 1
    /\ UNCHANGED <<adapterVars, dedupVars, r_pc, r_env, r_ids, new_records, duplicate_records,
                   r_i, r_counts, r_createLog, summary, r_raisedIn, exit_code>>
    /\ UNCHANGED fnVars

\* adapter.fetch(...) raises: except Exception, log, next adapter
AdapterRaises ==
    /\ r_pc = "fetch"
    /\ r_ai <= Len(ADAPTERS)
    /\ ADAPTERS[r_ai] \in r_env.enabled
    /\ \E out \in FetchOutcomes :
         /\ out.raised
         /\ ~ClientAvailable(ADAPTERS[r_ai]) => out.records = <<>>
         /\ r_fetchLog' = Append(r_fetchLog,
                [adapter |-> ADAPTERS[r_ai], raised |-> TRUE, records |-> out.records])
    /\ r_ai' = OnAdapterException(r_ai)
    /\ UNCHANGED <<adapterVars, dedupVars, r_pc, r_env, r_ids, all_records, new_records,
                   duplicate_records, r_i, r_counts, r_createLog, summary,
                   r_raisedIn, exit_code>>
    /\ UNCHANGED fnVars

\* the loop is over: `if not all_records: return {...}`
EndFetch ==
    /\ r_pc = "fetch"
    /\ r_ai > Len(ADAPTERS)
    /\ IF all_records = <<>>
       THEN Return([created |-> 0, skipped_dedup |-> 0, skipped_limit |-> 0,
                    errors |-> 0, total_fetched |-> 0])
       ELSE r_pc' = "dedup" /\ UNCHANGED <<summary, r_raisedIn, exit_code>>
    /\ UNCHANGED <<adapterVars, dedupVars, r_env, r_ids, r_ai, r_fetchLog, all_records,
                   new_records, duplicate_records, r_i, r_counts, r_createLog>>
    /\ UNCHANGED fnVars

\* a split that forgets the duplicates
SplitNewAndDuplicate_DuplicatesLost(records, match_on, rows) ==
    LET Dup(rec) == IsDuplicate(rec, match_on, rows).dup
        New(rec) == ~Dup(rec)
    IN  [new |-> SelectSeq(records, New), duplicate |-> <<>>]

\* a split that hands the two lists back in the other order
SplitNewAndDuplicate_Swapped(records, match_on, rows) ==
    LET Dup(rec) == IsDuplicate(rec, match_on, rows).dup
        New(rec) == ~Dup(rec)
    IN  [new |-> SelectSeq(records, Dup), duplicate |-> SelectSeq(records, New)]

\* split_new_and_duplicate(records, odoo, match_on) when every lookup returns
SplitNewAndDuplicate(records, match_on, rows) ==
    LET Dup(rec) == IsDuplicate(rec, match_on, rows).dup
        New(rec) == ~Dup(rec)
    IN  [new |-> SelectSeq(records, New), duplicate |-> SelectSeq(records, Dup)]

Deduplicate ==
    /\ r_pc = "dedup"
    /\ \E parts \in {SplitNewAndDuplicate(all_records, r_env.match_on, leads)} :
         /\ new_records' = parts.new
         /\ duplicate_records' = parts.duplicate
    /\ r_pc' = "state_ids"
    /\ UNCHANGED <<adapterVars, dedupVars, r_env, r_ids, r_ai, r_fetchLog, all_records, r_i,
                   r_counts, r_createLog, summary, r_raisedIn, exit_code>>
    /\ UNCHANGED fnVars

\* search_duplicate raises for one record: nothing in is_duplicate,
\* split_new_and_duplicate or run() catches it
DeduplicateRaises ==
    /\ r_pc = "dedup"
    /\ \E k \in 1..Len(all_records) : ~NameMissing(all_records[k])
    /\ Raise("dedup")
    /\ UNCHANGED <<adapterVars, dedupVars, r_env, r_ids, r_ai, r_fetchLog, all_records,
                   new_records, duplicate_records, r_i, r_counts, r_createLog>>
    /\ UNCHANGED fnVars

\* the state codes _resolve_state_ids looks up
StateCodes(records) ==
    {records[k].state_code : k \in {j \in 1..Len(records) : Truthy(records[j].state_code)}}

\* _resolve_state_ids(odoo, new_records) returns its cache (the ids only flow
\* into the payload of create_lead)
ResolveStateIds ==
    /\ r_pc = "state_ids"
    /\ r_pc' = "persist"
    /\ r_i' = 1
    /\ UNCHANGED <<adapterVars, dedupVars, r_env, r_ids, r_ai, r_fetchLog, all_records,
                   new_records, duplicate_records, r_counts, r_createLog,
                   summary, r_raisedIn, exit_code>>
    /\ UNCHANGED fnVars

\* odoo.get_state_id raises for one code: nothing catches it
ResolveStateIdsRaises ==
    /\ r_pc = "state_ids"
    /\ StateCodes(new_records) # {}
    /\ Raise("state_ids")
    /\ UNCHANGED <<adapterVars, dedupVars, r_env, r_ids, r_ai, r_fetchLog, all_records,
                   new_records, duplicate_records, r_i, r_counts, r_createLog>>
    /\ UNCHANGED fnVars

\* `limit is not None and created >= limit`
CapReached_OffByOne(created, limit) == \E n \in limit : created > n

CapReached(created, limit) == \E n \in limit : created >= n

\* where the persist loop goes after `except Exception` around create_lead
OnCreateError_Break(i, n) == n + 1

OnCreateError(i, n) == i + 1

InPersistLoop == r_pc = "persist" /\ r_i <= Len(new_records)

\* skipped_limit += 1; continue
SkipByLimit ==
    /\ InPersistLoop
    /\ CapReached(r_counts.created, r_env.limit)
    /\ r_counts' = [r_counts EXCEPT !.skipped_limit = @ + 1]
    /\ r_i' = r_i + 1
    /\ UNCHANGED <<adapterVars, dedupVars, r_pc, r_env, r_ids, r_ai, r_fetchLog, all_records,
                   new_records, duplicate_records, r_createLog, summary,
                   r_raisedIn, exit_code>>
    /\ UNCHANGED fnVars

\* [DRY RUN] Would create lead; created += 1; continue
DryRunCreate ==
    /\ InPersistLoop
    /\ ~CapReached(r_counts.created, r_env.limit)
    /\ r_env.dry_run
    /\ r_counts' = [r_counts EXCEPT !.created = @ + 1]
    /\ r_createLog' = Append(r_createLog, [index |-> r_i, call |-> "none"])
    /\ r_i' = r_i + 1
    /\ UNCHANGED <<adapterVars, dedupVars, r_pc, r_env, r_ids, r_ai, r_fetchLog, all_records,
                   new_records, duplicate_records, summary, r_raisedIn, exit_code>>
    /\ UNCHANGED fnVars

\* a persist loop that calls create_lead in every mode
ReachesCreateCall_Always(dry_run) == TRUE

\* the loop body gets past `if dry_run: ...; continue` to the create call
ReachesCreateCall(dry_run) == ~dry_run

\* odoo.create_lead(values) returns an id; created += 1
CreateLeadOk ==
    /\ InPersistLoop
    /\ ~CapReached(r_counts.created, r_env.limit)
    /\ ReachesCreateCall(r_env.dry_run)
    /\ leads' = StoreRow(leads, new_records[r_i])
    /\ r_counts' = [r_counts EXCEPT !.created = @ + 1]
    /\ r_createLog' = Append(r_createLog, [index |-> r_i, call |-> "ok"])
    /\ r_i' = r_i + 1
    /\ UNCHANGED <<adapterVars, d_pc, d_rec, d_match_on, d_result, d_queries, d_matches,
                   r_pc, r_env, r_ids, r_ai, r_fetchLog, all_records,
                   new_records, duplicate_records, summary, r_raisedIn, exit_code>>
    /\ UNCHANGED fnVars

\* odoo.create_lead(values) raises; errors += 1
CreateLeadFails ==
    /\ InPersistLoop
    /\ ~CapReached(r_counts.created, r_env.limit)
    /\ ReachesCreateCall(r_env.dry_run)
    /\ r_counts' = [r_counts EXCEPT !.errors = @ + 1]
    /\ r_createLog' = Append(r_createLog, [index |-> r_i, call |-> "failed"])
    /\ r_i' = OnCreateError(r_i, Len(new_records))
    /\ UNCHANGED <<adapterVars, dedupVars, r_pc, r_env, r_ids, r_ai, r_fetchLog, all_records,
                   new_records, duplicate_records, summary, r_raisedIn, exit_code>>
    /\ UNCHANGED fnVars

\* the loop is over: build the summary and return it
Summarize ==
    /\ r_pc = "persist"
    /\ r_i > Len(new_records)
    /\ Return([total_fetched |-> Len(all_records),
               created |-> r_counts.created,
               skipped_dedup |-> Len(duplicate_records),
               skipped_limit |-> r_counts.skipped_limit,
               errors |-> r_counts.errors])
    /\ UNCHANGED <<adapterVars, dedupVars, r_env, r_ids, r_ai, r_fetchLog, all_records,
                   new_records, duplicate_records, r_i, r_counts, r_createLog>>
    /\ UNCHANGED fnVars

Next ==
    \/ ConnectOdoo
    \/ ResolveIds
    \/ SkipDisabledAdapter
    \/ AdapterReturns
    \/ AdapterRaises
    \/ EndFetch
    \/ Deduplicate
    \/ DeduplicateRaises
    \/ ResolveStateIds
    \/ ResolveStateIdsRaises
    \/ SkipByLimit
    \/ DryRunCreate
    \/ CreateLeadOk
    \/ CreateLeadFails
    \/ Summarize

Spec == RunInit /\ [][Next]_vars

----------------------------------------------------------------------------
(* adapters/google_maps.py: GoogleMapsAdapter.fetch *)

\* results the Places text search may hand back: name and place_id
PlaceA  == [name |-> <<65, 98>>,  place_id |-> <<120>>]   \* "Ab", id "x"
PlaceB  == [name |-> <<98>>,      place_id |-> <<120>>]   \* "b",  id "x"
PlaceC  == [name |-> <<97, 98>>,  place_id |-> None]      \* "ab", no id
PlaceD  == [name |-> <<65, 66, 32>>, place_id |-> None]   \* "AB ", no id
PlaceNoName == [name |-> <<SPACE>>, place_id |-> <<121>>] \* " ",  id "y"

\* the pages client.places() may return
GMResponses ==
    [results : { <<>>, <<PlaceA>>, <<PlaceB>>, <<PlaceC>>, <<PlaceD>>,
                 <<PlaceNoName>>, <<PlaceC, PlaceA>> },
     next_page_token : BOOLEAN]

\* adapter_config, profile and the adapter's API key
GMConfigs ==
    { c \in [search_queries : {<<>>, <<"q1 {city}">>, <<"q1 {city}", "q2 {city}">>},
             cities : {<<>>, <<"x">>, <<"x", "y">>},
             max_results_per_query : {1, 2},
             exclude_operators : {<<>>, <<<<65>>>>, <<<<97, 98, 99>>>>},
             api_key : BOOLEAN] :
        /\ Len(c.search_queries) * Len(c.cities) <= 2
        /\ (c.search_queries = <<>> => c.cities = <<>>) }

\* `if not cities: cities = [""]`
GMCities(cfg) == IF cfg.cities = <<>> THEN <<"">> ELSE cfg.cities

\* [op.lower() for op in profile.get("exclude_operators", [])]
LowerAll(ops) == [i \in 1..Len(ops) |-> Lower(ops[i])]

\* _place_to_record: <<>> (None) when the stripped name is empty, else <<rec>>
PlaceToRecord(place) ==
    IF Strip(place.name) = <<>> THEN <<>>
    ELSE <<[partner_name |-> Strip(place.name), place_id |-> place.place_id]>>

\* the `for place in results` loop of _search_text
RECURSIVE AcceptPlaces(_, _, _, _)
AcceptPlaces(results, records, fetched, max_results) ==
    IF results = <<>> \/ fetched >= max_results
    THEN [records |-> records, fetched |-> fetched]
    ELSE AcceptPlaces(Tail(results),
                      records \o PlaceToRecord(Head(results)),
                      fetched + Len(PlaceToRecord(Head(results))),
                      max_results)

\* pid = rec.place_id or rec.partner_name.lower()
PlaceKey(rec) == OrElse(rec.place_id, Lower(rec.partner_name))

\* a filter that drops a name only when it equals a fragment
IsExcludedOperator_ExactOnly(name, exclude_operators) ==
    \E i \in 1..Len(exclude_operators) : exclude_operators[i] = Lower(name)

\* any(op in name_lower for op in exclude_operators)
IsExcludedOperator(name, exclude_operators) ==
    \E i \in 1..Len(exclude_operators) : Contains(Lower(name), exclude_operators[i])

\* a loop that never skips
AlreadySeen_Never(pid, seen) == FALSE

\* `if pid in seen_place_ids: continue`
AlreadySeen(pid, seen) == pid \in seen

\* the `for rec in records` loop of fetch: in-run dedup, then the exclude filter
RECURSIVE CollectPlaces(_, _, _, _)
CollectPlaces(records, seen, all, exclude_operators) ==
    IF records = <<>> THEN [seen_place_ids |-> seen, all_records |-> all]
    ELSE IF AlreadySeen(PlaceKey(Head(records)), seen)
         THEN CollectPlaces(Tail(records), seen, all, exclude_operators)
         ELSE IF /\ exclude_operators # <<>>
                 /\ IsExcludedOperator(Head(records).partner_name, exclude_operators)
              THEN CollectPlaces(Tail(records), seen \cup {PlaceKey(Head(records))},
                                 all, exclude_operators)
              ELSE CollectPlaces(Tail(records), seen \cup {PlaceKey(Head(records))},
                                 Append(all, Head(records)), exclude_operators)

\* fetch() returns `records`
AdapterReturn(records) ==
    /\ a_pc' = "returned"
    /\ a_out' = records

\* the head of fetch: no queries -> []; _get_client(); start the first search
GMStart ==
    /\ a_adapter = "google_maps"
    /\ a_pc = "start"
    /\ IF gm.cfg.search_queries = <<>>
       THEN AdapterReturn(<<>>) /\ UNCHANGED gm
       ELSE IF ~gm.cfg.api_key
            THEN a_pc' = "raised" /\ UNCHANGED <<a_out, gm>>
            ELSE /\ a_pc' = "paging"
                 /\ gm' = [gm EXCEPT !.qi = 1, !.ci = 1]
                 /\ UNCHANGED a_out
    /\ UNCHANGED <<a_adapter, a_calls, td, dedupVars, runVars>>
    /\ UNCHANGED fnVars

\* a continuation request sent without the delay
RequestEvents_NoDelay(page_token) == <<"places">>

\* what one pass of the while loop of _search_text logs before its request
RequestEvents(page_token) ==
    (IF page_token THEN <<"sleep(2)">> ELSE <<>>) \o <<"places">>

\* history: one client.places() call of the query/city pair the loop of fetch
\* is at, with what _search_text held before it and what came of it
PageRequest(g, raised, results, next_page_token, fetched_after) ==
    [unit |-> Len(g.units) + 1,
     page_token |-> g.page_token,
     fetched_before |-> g.fetched,
     raised |-> raised,
     results |-> results,
     next_page_token |-> next_page_token,
     fetched_after |-> fetched_after]

InPaging ==
    /\ a_adapter = "google_maps"
    /\ a_pc = "paging"
    /\ gm.fetched < gm.cfg.max_results_per_query
    /\ gm.pages < MaxPages

\* a search that returns nothing once a request has failed
RecordsAfterError_Dropped(records) == <<>>

\* `except Exception: ...; break` leaves `records` as the earlier pages made it
RecordsAfterError(records) == records

\* client.places() raises: log, break
GMPageRaises ==
    /\ InPaging
    /\ a_pc' = "collect"
    /\ gm' = [gm EXCEPT !.pages = @ + 1,
                        !.records = RecordsAfterError(@),
                        !.events = @ \o RequestEvents(gm.page_token),
                        !.requests = Append(@, PageRequest(gm, TRUE, <<>>, FALSE,
                                                          gm.fetched))]
    /\ UNCHANGED <<a_adapter, a_calls, a_out, td, dedupVars, runVars>>
    /\ UNCHANGED fnVars

\* client.places() returns a page
GMPageReturns ==
    /\ InPaging
    /\ \E resp \in GMResponses :
         \E acc \in {AcceptPlaces(resp.results, gm.records, gm.fetched,
                                  gm.cfg.max_results_per_query)} :
            /\ gm' = [gm EXCEPT
                        !.pages = @ + 1,
                        !.events = @ \o RequestEvents(gm.page_token),
                        !.requests = Append(@, PageRequest(gm, FALSE, resp.results,
                                                          resp.next_page_token,
                                                          acc.fetched)),
                        !.records = acc.records,
                        !.fetched = acc.fetched,
                        !.page_token = IF resp.results = <<>> THEN @
                                       ELSE resp.next_page_token]
            /\ a_pc' = IF resp.results = <<>> \/ ~resp.next_page_token
                       THEN "collect" ELSE "paging"
    /\ UNCHANGED <<a_adapter, a_calls, a_out, td, dedupVars, runVars>>
    /\ UNCHANGED fnVars

\* a loop that searches each query with the first city only
NextUnit_FirstCityOnly(cfg, qi, ci) == [qi |-> qi + 1, ci |-> 1]

\* the query/city pair after (qi, ci); qi beyond the queries when there is none
NextUnit(cfg, qi, ci) ==
    IF ci < Len(GMCities(cfg)) THEN [qi |-> qi, ci |-> ci + 1]
    ELSE [qi |-> qi + 1, ci |-> 1]

\* a delay taken only after a search that returned records
AfterSearchEvents_OnlyWithRecords(records) ==
    IF records = <<>> THEN <<>> ELSE <<"sleep(REQUEST_DELAY)">>

\* what fetch logs after the `for rec in records` loop: time.sleep(REQUEST_DELAY)
AfterSearchEvents(records) == <<"sleep(REQUEST_DELAY)">>

\* _search_text returned (break, or fetched reached the cap): fetch dedups and
\* filters its records, sleeps, and goes to the next pair or returns
GMCollect ==
    /\ a_adapter = "google_maps"
    /\ \/ a_pc = "collect"
       \/ a_pc = "paging" /\ gm.fetched >= gm.cfg.max_results_per_query
    /\ \E col \in {CollectPlaces(gm.records, gm.seen_place_ids, gm.all_records,
                                 LowerAll(gm.cfg.exclude_operators))},
          nxt \in {NextUnit(gm.cfg, gm.qi, gm.ci)} :
         /\ gm' = [gm EXCEPT
                     !.seen_place_ids = col.seen_place_ids,
                     !.all_records = col.all_records,
                     !.searched = @ \o gm.records,
                     !.units = Append(@, [qi |-> gm.qi, ci |-> gm.ci,
                                          records |-> gm.records]),
                     !.events = @ \o AfterSearchEvents(gm.records),
                     !.records = <<>>, !.page_token = FALSE, !.fetched = 0,
                     !.pages = 0,
                     !.qi = nxt.qi, !.ci = nxt.ci]
         /\ IF nxt.qi > Len(gm.cfg.search_queries)
            THEN AdapterReturn(col.all_records)
            ELSE a_pc' = "paging" /\ UNCHANGED a_out
    /\ UNCHANGED <<a_adapter, a_calls, td, dedupVars, runVars>>
    /\ UNCHANGED fnVars

----------------------------------------------------------------------------
(* adapters/trade_data.py: TradeDataAdapter.fetch *)

DOT == 46
COMMA == 44
LPAREN == 40
RPAREN == 41
PLUS == 43
\* supplier_text[:50]
COUNTRY_TEXT_LEN == 50
\* `if len(hs_normalized) == 6`
HS_SHORT_LEN == 6

\* s.replace(c, "")
RECURSIVE Without(_, _)
Without(s, c) ==
    IF s = <<>> THEN <<>>
    ELSE (IF Head(s) = c THEN <<>> ELSE <<Head(s)>>) \o Without(Tail(s), c)

\* hs_code.replace(".", "").replace(" ", ""), padded with "00" when 6 long
NormalizeHsCode(hs_code) ==
    LET n == Without(Without(hs_code, DOT), SPACE)
    IN  IF Len(n) = HS_SHORT_LEN THEN n \o <<48, 48>> ELSE n

\* quote_plus on digits, letters, "." and " "
QuotePlus(s) == [i \in 1..Len(s) |-> IF s[i] = SPACE THEN PLUS ELSE s[i]]

\* HS_CODE_URL.format(hs_code=hs_normalized)
HsCodeUrl(hs_code) == [page |-> "/hs-code/", arg |-> NormalizeHsCode(hs_code)]

\* SEARCH_URL.format(query=quote_plus(hs_code))
SearchUrl(hs_code) == [page |-> "/search?q=", arg |-> QuotePlus(hs_code)]

\* str.split(","): the parts, empty ones kept
RECURSIVE SplitCommaAcc(_, _, _)
SplitCommaAcc(s, cur, acc) ==
    IF s = <<>> THEN Append(acc, cur)
    ELSE IF Head(s) = COMMA THEN SplitCommaAcc(Tail(s), <<>>, Append(acc, cur))
    ELSE SplitCommaAcc(Tail(s), Append(cur, Head(s)), acc)

SplitComma(s) == SplitCommaAcc(s, <<>>, <<>>)

\* re.search(r"\(([A-Z]{2})\)", text): the positions of "(" of the matches
IsoCodeAt(text) ==
    {i \in 1..(Len(text) - 3) :
        /\ text[i] = LPAREN
        /\ text[i + 1] \in 65..90
        /\ text[i + 2] \in 65..90
        /\ text[i + 3] = RPAREN}

\* _normalize_country(supplier_text)
NormalizeCountry(supplier_text) ==
    IF ~Truthy(supplier_text) THEN None
    ELSE IF IsoCodeAt(supplier_text) # {}
         THEN LET i == CHOOSE j \in IsoCodeAt(supplier_text) :
                          \A k \in IsoCodeAt(supplier_text) : j <= k
              IN  SubSeq(supplier_text, i + 1, i + 2)
         ELSE Strip(Prefix(supplier_text, COUNTRY_TEXT_LEN))

\* _parse_single_card on a card whose extracted name and supplier text are
\* given: <<>> (None) without a name, else <<rec>>
ParseSingleCard(card) ==
    IF ~Truthy(card.name) THEN <<>>
    ELSE <<[partner_name |-> card.name,
            x_import_source_country |-> NormalizeCountry(card.supplier_text)]>>

\* [c.strip().upper() for c in rec.x_import_source_country.split(",")]
SupplierCountries(country) ==
    LET parts == SplitComma(country)
    IN  [i \in 1..Len(parts) |-> Upper(Strip(parts[i]))]

\* all(c in exclude_from for c in countries if c)
AllSuppliersExcluded(country, exclude_from) ==
    \A i \in 1..Len(SupplierCountries(country)) :
        SupplierCountries(country)[i] # <<>> =>
            \E j \in 1..Len(exclude_from) : exclude_from[j] = SupplierCountries(country)[i]

\* the `for card in cards` loop of _parse_company_cards
RECURSIVE ParseCompanyCards(_, _)
ParseCompanyCards(cards, exclude_from) ==
    IF cards = <<>> THEN <<>>
    ELSE LET rec == ParseSingleCard(Head(cards))
             Dropped(r) == /\ exclude_from # <<>>
                           /\ Truthy(r.x_import_source_country)
                           /\ AllSuppliersExcluded(r.x_import_source_country, exclude_from)
             Kept(r) == ~Dropped(r)
         IN  SelectSeq(rec, Kept) \o ParseCompanyCards(Tail(cards), exclude_from)

\* key = rec.partner_name.lower().strip()
NameKey(rec) == Strip(Lower(rec.partner_name))

\* `if key not in seen_names`
IsNewName(key, seen) == key \notin seen

\* the `for rec in records` loop of fetch: cross-code dedup by name
RECURSIVE CollectCards(_, _, _)
CollectCards(records, seen, all) ==
    IF records = <<>> THEN [seen_names |-> seen, all_records |-> all]
    ELSE IF IsNewName(NameKey(Head(records)), seen)
         THEN CollectCards(Tail(records), seen \cup {NameKey(Head(records))},
                           Append(all, Head(records)))
         ELSE CollectCards(Tail(records), seen, all)

\* cards as the selector cascade extracted them: name and supplier text
CardAb   == [name |-> <<65, 98>>, supplier_text |-> <<LPAREN, 67, 78, RPAREN>>] \* "Ab", "(CN)"
CardAbLc == [name |-> <<97, 98>>, supplier_text |-> <<99, 110, COMMA, 85, 83>>] \* "ab", "cn,US"
CardB    == [name |-> <<98>>,     supplier_text |-> None]                       \* "b"
CardAnon == [name |-> None,       supplier_text |-> <<67, 78>>]                 \* no name

\* the pages the site may serve, as the cards found on them
TDPages == { <<>>, <<CardAb, CardB>>, <<CardAbLc>>, <<CardAnon>>, <<CardB, CardAbLc>> }

TDConfigs ==
    [hs_codes : { <<>>, <<<<49, DOT, 50>>>>, <<<<49, DOT, 50>>, <<49, 50>>>>,
                  <<<<49, 50>>, <<51>>>>,
                  <<<<49, 49, 49, 49, 49, 49>>, <<49, 49, 49, 49, 49, 49, 48, 48>>>> },
     exclude_suppliers_from : { <<>>, <<<<99, 110>>>>, <<<<99, 110>>, <<117, 115>>>> }]

\* [c.upper() for c in adapter_config.get("exclude_suppliers_from", [])]
UpperAll(xs) == [i \in 1..Len(xs) |-> Upper(xs[i])]

\* a lookup that never reads the cache
GetCached_NoCache(url, cache) ==
    {[html |-> <<>>, cache |-> cache,
      request |-> [url |-> url, via |-> "network-failed"]]}
    \cup {[html |-> <<page>>, cache |-> (url :> page) @@ cache,
           request |-> [url |-> url, via |-> "network"]] : page \in TDPages}

\* _get_cached(url): the ways it can end.  html is <<>> for None, <<page>>
\* for a body; a failed request is not cached
GetCached(url, cache) ==
    IF url \in DOMAIN cache
    THEN {[html |-> <<cache[url]>>, cache |-> cache,
           request |-> [url |-> url, via |-> "cache"]]}
    ELSE {[html |-> <<>>, cache |-> cache,
           request |-> [url |-> url, via |-> "network-failed"]]}
         \cup {[html |-> <<page>>, cache |-> (url :> page) @@ cache,
                request |-> [url |-> url, via |-> "network"]] : page \in TDPages}

\* the head of fetch: no codes -> []
TDStart ==
    /\ a_adapter = "trade_data"
    /\ a_pc = "start"
    /\ IF td.cfg.hs_codes = <<>>
       THEN AdapterReturn(<<>>) /\ UNCHANGED td
       ELSE /\ a_pc' = "codes"
            /\ td' = [td EXCEPT !.hi = 1]
            /\ UNCHANGED a_out
    /\ UNCHANGED <<a_adapter, a_calls, gm, dedupVars, runVars>>
    /\ UNCHANGED fnVars

\* what _fetch_by_hs_code returns for the primary outcome `first` and, when it
\* is tried, the fallback outcome `second`
CodeRecords(first, second, exclude_from) ==
    IF first.html = <<>> THEN <<>>
    ELSE IF ParseCompanyCards(first.html[1], exclude_from) # <<>>
         THEN ParseCompanyCards(first.html[1], exclude_from)
         ELSE IF second.html # <<>> /\ second.html[1] # <<>>
              THEN ParseCompanyCards(second.html[1], exclude_from)
              ELSE <<>>

\* a fallback taken only when the primary page has no card at all
NeedsFallback_NoCards(first, exclude_from) ==
    first.html # <<>> /\ first.html[1] = <<>>

\* `if not records`: the fallback URL is looked up
NeedsFallback(first, exclude_from) ==
    first.html # <<>> /\ ParseCompanyCards(first.html[1], exclude_from) = <<>>

\* one pass of `for hs_code in hs_codes`: _fetch_by_hs_code, then the dedup loop
TDFetchCode ==
    /\ a_adapter = "trade_data"
    /\ a_pc = "codes"
    /\ td.hi <= Len(td.cfg.hs_codes)
    /\ \E first \in GetCached(HsCodeUrl(td.cfg.hs_codes[td.hi]), td.url_cache) :
         \E second \in
            IF NeedsFallback(first, UpperAll(td.cfg.exclude_suppliers_from))
            THEN GetCached(SearchUrl(td.cfg.hs_codes[td.hi]), first.cache)
            ELSE {[html |-> <<>>, cache |-> first.cache, request |-> <<>>]} :
           \E recs \in {CodeRecords(first, second,
                                    UpperAll(td.cfg.exclude_suppliers_from))} :
             \E col \in {CollectCards(recs, td.seen_names, td.all_records)} :
               td' = [td EXCEPT
                        !.hi = @ + 1,
                        !.url_cache = second.cache,
                        !.requests = (@ \o <<first.request>>)
                                       \o (IF second.request = <<>> THEN <<>>
                                           ELSE <<second.request>>),
                        !.parsed = @ \o recs,
                        !.by_code = Append(@, [hs_code |-> td.cfg.hs_codes[td.hi],
                                               primary |-> first.html,
                                               fallback_asked |-> second.request # <<>>,
                                               fallback |-> second.html,
                                               records |-> recs]),
                        !.seen_names = col.seen_names,
                        !.all_records = col.all_records]
    /\ UNCHANGED <<a_adapter, a_calls, a_pc, a_out, gm, dedupVars, runVars>>
    /\ UNCHANGED fnVars

\* the loop over the codes is over: return all_records
TDReturn ==
    /\ a_adapter = "trade_data"
    /\ a_pc = "codes"
    /\ td.hi > Len(td.cfg.hs_codes)
    /\ AdapterReturn(td.all_records)
    /\ UNCHANGED <<a_adapter, a_calls, gm, td, dedupVars, runVars>>
    /\ UNCHANGED fnVars

\* GoogleMapsAdapter.fetch's locals before its first statement
GMFresh(cfg) ==
    [cfg |-> cfg, qi |-> 0, ci |-> 0, records |-> <<>>, page_token |-> FALSE,
     fetched |-> 0, pages |-> 0, seen_place_ids |-> {}, all_records |-> <<>>,
     events |-> <<>>, searched |-> <<>>, units |-> <<>>, requests |-> <<>>]

\* TradeDataAdapter.fetch's locals before its first statement, and the
\* _url_cache of the instance it is called on
TDFresh(cfg, url_cache) ==
    [cfg |-> cfg, hi |-> 0, url_cache |-> url_cache, seen_names |-> {},
     all_records |-> <<>>, requests |-> <<>>, parsed |-> <<>>, by_code |-> <<>>]

\* fetch() is called again on the same adapter instance (ADAPTERS holds one
\* instance of each adapter for the life of the process), with the same
\* configuration: its locals are new, the attributes of the instance are kept
FetchAgain ==
    /\ a_pc \in {"returned", "raised"}
    /\ a_calls < MaxCalls
    /\ a_calls' = a_calls + 1
    /\ a_pc' = "start"
    /\ a_out' = <<>>
    /\ IF a_adapter = "google_maps"
       THEN gm' = GMFresh(gm.cfg) /\ UNCHANGED td
       ELSE td' = TDFresh(td.cfg, td.url_cache) /\ UNCHANGED gm
    /\ UNCHANGED <<a_adapter, dedupVars, runVars>>
    /\ UNCHANGED fnVars

AdaptersInit ==
    /\ FunctionsIdle
    /\ RunIdle
    /\ DedupIdle
    /\ leads = <<>>
    /\ a_calls = 1
    /\ a_pc = "start"
    /\ a_out = <<>>
    /\ \/ /\ a_adapter = "google_maps"
          /\ \E cfg \in GMConfigs :
               gm = GMFresh(cfg)
          /\ TDIdle
       \/ /\ a_adapter = "trade_data"
          /\ \E cfg \in TDConfigs :
               td = TDFresh(cfg, <<>>)
          /\ GMIdle

AdaptersNext ==
    \/ GMStart
    \/ GMPageRaises
    \/ GMPageReturns
    \/ GMCollect
    \/ TDStart
    \/ TDFetchCode
    \/ TDReturn
    \/ FetchAgain

SpecAdapters == AdaptersInit /\ [][AdaptersNext]_vars

\* a run of run(), or one fetch() call on one adapter
PipelineInit == RunInit \/ AdaptersInit

PipelineNext == Next \/ AdaptersNext

SpecPipeline == PipelineInit /\ [][PipelineNext]_vars

----------------------------------------------------------------------------
(* normalizer.py: ProspectRecord.to_odoo_values *)

\* " — " between the company name and the stream label
EM_DASH == 8212
UNDERSCORE == 95

\* an Optional[bool] or Optional[int] is {} for None, {v} for the value v
\* `x is not None` read as plain truthiness
IsNotNone_Truthy(opt) == ToString(opt) \notin {"{}", "{FALSE}", "{0}"}

\* `x is not None`
IsNotNone(opt) == opt # {}

\* `if state_id:` on an Optional[int]
TruthyInt(opt) == opt # {} /\ opt # {0}

\* the value held by an Optional that is not None
ValueOf(opt) == CHOOSE v \in opt : TRUE

IsLetter(c) == c \in 65..90 \/ c \in 97..122

\* str.title(): a letter is upper-cased after a non-letter, lower-cased after a letter
Title(s) ==
    [i \in 1..Len(s) |->
        IF i > 1 /\ IsLetter(s[i - 1]) THEN Lower(<<s[i]>>)[1] ELSE Upper(<<s[i]>>)[1]]

\* stream.replace("_", " ")
UnderscoresToSpaces(s) == [i \in 1..Len(s) |-> IF s[i] = UNDERSCORE THEN SPACE ELSE s[i]]

\* _make_lead_title(partner_name, stream)
MakeLeadTitle(partner_name, stream) ==
    partner_name \o <<SPACE, EM_DASH, SPACE>> \o Title(UnderscoresToSpaces(stream))

\* values[key] = value, when cond
PutIf(values, cond, key, value) == IF cond THEN (key :> value) @@ values ELSE values

\* the record fields copied under `if self.<field>:`, in the order of the code
TruthyCopiedFields ==
    <<"street", "city", "zip", "phone", "website", "description", "x_data_source",
      "x_import_source_country", "x_current_supplier", "x_property_type">>

\* the fields copied under `if self.<field> is not None:`
NotNoneCopiedFields == <<"x_already_importing", "x_estimated_spaces">>

RECURSIVE CopyTruthy(_, _, _)
CopyTruthy(values, rec, fields) ==
    IF fields = <<>> THEN values
    ELSE CopyTruthy(PutIf(values, Truthy(rec[Head(fields)]), Head(fields), rec[Head(fields)]),
                    rec, Tail(fields))

RECURSIVE CopyNotNone(_, _, _)
CopyNotNone(values, rec, fields) ==
    IF fields = <<>> THEN values
    ELSE CopyNotNone(
            IF IsNotNone(rec[Head(fields)])
            THEN (Head(fields) :> ValueOf(rec[Head(fields)])) @@ values
            ELSE values,
            rec, Tail(fields))

\* ProspectRecord.to_odoo_values(stream, stage_id, state_id, country_id)
ToOdooValues(rec, stream, stage_id, state_id, country_id) ==
    LET base == [name |-> MakeLeadTitle(rec.partner_name, stream),
                 partner_name |-> rec.partner_name,
                 stage_id |-> stage_id,
                 x_bd_stream |-> stream,
                 x_enrichment_status |-> rec.x_enrichment_status]
        ids == IF TruthyInt(state_id) /\ TruthyInt(country_id)
               THEN ("state_id" :> ValueOf(state_id)) @@ ("country_id" :> ValueOf(country_id))
               ELSE IF TruthyInt(state_id) THEN ("state_id" :> ValueOf(state_id))
               ELSE IF TruthyInt(country_id) THEN ("country_id" :> ValueOf(country_id))
               ELSE <<>>
    IN  CopyNotNone(CopyTruthy(ids @@ base, rec, TruthyCopiedFields), rec, NotNoneCopiedFields)

\* ProspectRecord(partner_name=...): every other field at its default
DefaultRecord(partner_name) ==
    [partner_name |-> partner_name, street |-> None, city |-> None, state_code |-> None,
     zip |-> None, country_code |-> <<85, 83>>, phone |-> None, website |-> None,
     description |-> None, x_data_source |-> None, x_bd_stream |-> None,
     x_enrichment_status |-> <<112>>, x_already_importing |-> {},
     x_import_source_country |-> None, x_current_supplier |-> None,
     x_property_type |-> None, x_estimated_spaces |-> {}, place_id |-> None,
     rating |-> {}, raw |-> <<>>]

\* the values a caller may give a field
FieldValues(f) ==
    IF f = "x_already_importing" THEN {{TRUE}, {FALSE}}
    ELSE IF f = "x_estimated_spaces" THEN {{0}, {5}}
    ELSE IF f = "rating" THEN {{4}}
    ELSE IF f = "raw" THEN {<<<<65>>>>}
    ELSE {<<>>, <<65>>}

SettableFields ==
    {"street", "city", "state_code", "zip", "phone", "website", "description",
     "x_data_source", "x_already_importing", "x_import_source_country",
     "x_current_supplier", "x_property_type", "x_estimated_spaces", "place_id",
     "rating", "raw"}

\* records with at most n fields given
RECURSIVE RecordsWith(_)
RecordsWith(n) ==
    IF n = 0 THEN {DefaultRecord(<<65>>)}
    ELSE RecordsWith(n - 1) \cup
         UNION {{[r EXCEPT ![f] = v] : r \in RecordsWith(n - 1), v \in FieldValues(f)} :
                f \in SettableFields}

\* the arguments of one to_odoo_values call; run() passes `research_stage_id or 0`
ToOdooValuesArgs ==
    [rec : RecordsWith(MaxSetFields), stream : {<<115, UNDERSCORE, 99>>},
     stage_id : {0, 1}, state_id : {{}, {42}}, country_id : {{}, {233}}]

----------------------------------------------------------------------------
(* adapters/trade_data.py: the name of a card (_extract_text, _parse_single_card) *)

\* Within a card: the name selectors, tried in this order
NAME_SELECTORS ==
    <<"[data-company-name]", "h2", "h3", "[class*='company-name']",
      "[class*='CompanyName']", "a[href*='/company/']">>

\* found[attr] of the first attribute with `attr.startswith("data-") and
\* found[attr]`, as <<value>>; <<>> when there is none
RECURSIVE FirstDataValue(_)
FirstDataValue(attrs) ==
    IF attrs = <<>> THEN <<>>
    ELSE IF Head(attrs).is_data /\ Truthy(Head(attrs).value) THEN <<Head(attrs).value>>
    ELSE FirstDataValue(Tail(attrs))

\* the body of `if found:` that looks at the text only
FoundText_TextOnly(found) == IF Truthy(found.text) THEN <<found.text>> ELSE <<>>

\* the body of `if found:`: <<s>> when it returns s, <<>> when the loop goes on.
\* found.text is get_text(strip=True)
FoundText(found) ==
    IF Truthy(found.text) THEN <<found.text>>
    ELSE IF FirstDataValue(found.attrs) # <<>>
         THEN <<Strip(FirstDataValue(found.attrs)[1])>>
         ELSE <<>>

\* _extract_text(element, selectors); matches[i] is what
\* element.select_one(selectors[i]) finds: <<>> or <<found>>
RECURSIVE ExtractText(_)
ExtractText(matches) ==
    IF matches = <<>> THEN None
    ELSE IF Head(matches) # <<>> /\ FoundText(Head(matches)[1]) # <<>>
         THEN FoundText(Head(matches)[1])[1]
         ELSE ExtractText(Tail(matches))

\* the name part of _parse_single_card: <<>> when it returns None, else <<name>>.
\* card.link is card.find("a"): <<>> or <<its get_text(strip=True)>>
NameOfCard(card) ==
    LET name == ExtractText(card.name_matches)
        name2 == IF ~Truthy(name) /\ card.link # <<>> THEN card.link[1] ELSE name
    IN  IF ~Truthy(name2) THEN <<>> ELSE <<name2>>

\* the elements a selector may find in a card
FoundElements ==
    [text : {<<>>, <<65>>, <<66>>},
     attrs : { <<>>,
               <<[is_data |-> TRUE, value |-> <<SPACE>>]>>,
               <<[is_data |-> FALSE, value |-> <<67>>],
                 [is_data |-> TRUE, value |-> <<>>],
                 [is_data |-> TRUE, value |-> <<69, SPACE>>]>> }]

\* what the name selectors find in a card in which the selectors of `hit` match
MatchesOn(hit) ==
    {[i \in 1..Len(NAME_SELECTORS) |-> IF i \in hit THEN <<g[i]>> ELSE <<>>] :
        g \in [hit -> FoundElements]}

\* cards in which at most MaxMatches name selectors match
Cards ==
    [name_matches : UNION {MatchesOn(hit) :
                             hit \in {h \in SUBSET (1..Len(NAME_SELECTORS)) :
                                         Cardinality(h) <= MaxMatches}},
     link : {<<>>, <<<<>>>>, <<<<76>>>>}]

----------------------------------------------------------------------------
(* normalizer.py: parse_google_address *)

HYPHEN == 45
\* \d{5} and \d{4} of the postal code pattern
ZIP_LEN == 5
ZIP_EXT_LEN == 4
\* [A-Z]{2}
STATE_CODE_LEN == 2

IsUpperLetter(c) == c \in 65..90
IsDigit(c) == c \in 48..57

\* (USA|United States|US)
CountryTokens ==
    { <<85, 83, 65>>,
      <<85, 110, 105, 116, 101, 100, SPACE, 83, 116, 97, 116, 101, 115>>,
      <<85, 83>> }

\* the whole of t matches ,?\s*(USA|United States|US)\s*$
IsCountryTail(t) ==
    /\ t # <<>>
    /\ Strip(IF t[1] = COMMA THEN Tail(t) ELSE t) \in CountryTokens

\* re.sub(r",?\s*(USA|United States|US)\s*$", "", s): the leftmost match goes
StripCountry(s) ==
    LET starts == {i \in 1..Len(s) : IsCountryTail(SubSeq(s, i, Len(s)))}
    IN  IF starts = {} THEN s
        ELSE SubSeq(s, 1, (CHOOSE i \in starts : \A j \in starts : i <= j) - 1)

\* [p.strip() for p in address.split(",")]
StrippedParts(address) ==
    [i \in 1..Len(SplitComma(address)) |-> Strip(SplitComma(address)[i])]

\* all of s[from..to] exists and is digits
DigitsAt(s, from, to) == to <= Len(s) /\ \A i \in from..to : IsDigit(s[i])

\* a pattern that takes the state only when a postal code follows
ParseStateZip_ZipRequired(state_zip) ==
    LET rest == LStrip(SubSeq(state_zip, STATE_CODE_LEN + 1, Len(state_zip)))
    IN  IF /\ Len(state_zip) >= STATE_CODE_LEN
           /\ \A i \in 1..STATE_CODE_LEN : IsUpperLetter(state_zip[i])
           /\ DigitsAt(rest, 1, ZIP_LEN)
        THEN [state_code |-> SubSeq(state_zip, 1, STATE_CODE_LEN),
              zip |-> SubSeq(rest, 1, ZIP_LEN)]
        ELSE [state_code |-> None, zip |-> None]

\* re.match(r"([A-Z]{2})\s*(\d{5}(?:-\d{4})?)?", state_zip): group 1 and group 2
ParseStateZip(state_zip) ==
    LET rest == LStrip(SubSeq(state_zip, STATE_CODE_LEN + 1, Len(state_zip)))
    IN  IF /\ Len(state_zip) >= STATE_CODE_LEN
           /\ \A i \in 1..STATE_CODE_LEN : IsUpperLetter(state_zip[i])
        THEN [state_code |-> SubSeq(state_zip, 1, STATE_CODE_LEN),
              zip |-> IF DigitsAt(rest, 1, ZIP_LEN)
                      THEN IF /\ Len(rest) > ZIP_LEN
                              /\ rest[ZIP_LEN + 1] = HYPHEN
                              /\ DigitsAt(rest, ZIP_LEN + 2, ZIP_LEN + 1 + ZIP_EXT_LEN)
                           THEN SubSeq(rest, 1, ZIP_LEN + 1 + ZIP_EXT_LEN)
                           ELSE SubSeq(rest, 1, ZIP_LEN)
                      ELSE None]
        ELSE [state_code |-> None, zip |-> None]

\* parse_google_address(formatted_address)
ParseGoogleAddress(formatted_address) ==
    LET result == [street |-> None, city |-> None, state_code |-> None, zip |-> None]
        parts == StrippedParts(Strip(StripCountry(formatted_address)))
    IN  IF ~Truthy(formatted_address) THEN result
        ELSE IF Len(parts) >= 3
             THEN [street |-> parts[1], city |-> parts[2],
                   state_code |-> ParseStateZip(Strip(parts[3])).state_code,
                   zip |-> ParseStateZip(Strip(parts[3])).zip]
        ELSE IF Len(parts) = 2
             THEN [street |-> None, city |-> parts[1],
                   state_code |-> ParseStateZip(Strip(parts[2])).state_code,
                   zip |-> ParseStateZip(Strip(parts[2])).zip]
        ELSE IF Len(parts) = 1 THEN [result EXCEPT !.city = parts[1]]
        ELSE result

\* the comma-separated pieces addresses are made of
AddressPieces ==
    { <<97>>,                                                   \* "a"
      <<SPACE, 98>>,                                            \* " b"
      <<SPACE, 78, 89>>,                                        \* " NY"
      <<SPACE, 78, 89, SPACE, 49, 50, 51, 52, 53>>,             \* " NY 12345"
      <<78, 89, 49, 50, 51, 52, 53, HYPHEN, 54, 55, 56, 57>>,   \* "NY12345-6789"
      <<SPACE, 78, 121, SPACE, 49, 50, 51, 52>>,                \* " Ny 1234"
      <<SPACE, 85, 83, 65>>,                                    \* " USA"
      <<65, 85, 83>>,                                           \* "AUS"
      <<SPACE, 85, 110, 105, 116, 101, 100, SPACE, 83, 116, 97, 116, 101, 115, SPACE>> }

\* ",".join(pieces)
RECURSIVE JoinComma(_)
JoinComma(pieces) ==
    IF pieces = <<>> THEN <<>>
    ELSE IF Len(pieces) = 1 THEN pieces[1]
    ELSE pieces[1] \o <<COMMA>> \o JoinComma(Tail(pieces))

\* the formatted_address strings of at most MaxParts pieces
Addresses == {JoinComma(ps) : ps \in SeqsUpTo(AddressPieces, MaxParts)}

----------------------------------------------------------------------------
(* Calls of the functions that only compute a value *)

\* values = rec.to_odoo_values(...)
ToOdooValuesReturns ==
    /\ f_fn = "to_odoo_values"
    /\ f_pc = "call"
    /\ f_ret' = ToOdooValues(f_args.rec, f_args.stream, f_args.stage_id,
                             f_args.state_id, f_args.country_id)
    /\ f_pc' = "returned"
    /\ UNCHANGED <<f_fn, f_args, dedupVars, runVars, adapterVars>>

\* name = ...; if not name: return None
ParseSingleCardReturns ==
    /\ f_fn = "_parse_single_card"
    /\ f_pc = "call"
    /\ f_ret' = NameOfCard(f_args)
    /\ f_pc' = "returned"
    /\ UNCHANGED <<f_fn, f_args, dedupVars, runVars, adapterVars>>

\* addr_parts = parse_google_address(formatted_address)
ParseGoogleAddressReturns ==
    /\ f_fn = "parse_google_address"
    /\ f_pc = "call"
    /\ f_ret' = ParseGoogleAddress(f_args)
    /\ f_pc' = "returned"
    /\ UNCHANGED <<f_fn, f_args, dedupVars, runVars, adapterVars>>

\* the texts the supplier selectors may extract from a card
SupplierTexts ==
    { None,
      <<LPAREN, 67, 78, RPAREN>>,                       \* "(CN)"
      <<99, 110, COMMA, 85, 83>>,                       \* "cn,US"
      <<LPAREN, 67, 78, RPAREN, COMMA, 86, 78>>,        \* "(CN),VN"
      <<86, 78>>,                                       \* "VN"
      <<85, 83, COMMA, SPACE>>,                         \* "US, "
      <<COMMA>> }                                       \* ","

\* the arguments of one _parse_company_cards call: the cards found on the
\* page, as their extracted name and supplier text, and the upper-cased
\* exclude_suppliers_from of fetch
ParseCompanyCardsArgs ==
    [cards : SeqsUpTo([name : {<<65>>, None}, supplier_text : SupplierTexts], MaxCards),
     exclude_from : {UpperAll(x) : x \in {<<>>, <<<<99, 110>>>>, <<<<99, 110>>, <<117, 115>>>>}}]

\* records = self._parse_company_cards(html, stream, exclude_from, ...)
ParseCompanyCardsReturns ==
    /\ f_fn = "_parse_company_cards"
    /\ f_pc = "call"
    /\ f_ret' = ParseCompanyCards(f_args.cards, f_args.exclude_from)
    /\ f_pc' = "returned"
    /\ UNCHANGED <<f_fn, f_args, dedupVars, runVars, adapterVars>>

FunctionsInit ==
    /\ RunIdle
    /\ DedupIdle
    /\ leads = <<>>
    /\ AdaptersIdle
    /\ f_pc = "call"
    /\ f_ret = <<>>
    /\ \/ f_fn = "to_odoo_values" /\ f_args \in ToOdooValuesArgs
       \/ f_fn = "_parse_single_card" /\ f_args \in Cards
       \/ f_fn = "parse_google_address" /\ f_args \in Addresses
       \/ f_fn = "_parse_company_cards" /\ f_args \in ParseCompanyCardsArgs

FunctionsNext ==
    \/ ToOdooValuesReturns
    \/ ParseSingleCardReturns
    \/ ParseGoogleAddressReturns
    \/ ParseCompanyCardsReturns

SpecFunctions == FunctionsInit /\ [][FunctionsNext]_vars

----------------------------------------------------------------------------
(* adapters/google_maps.py: one _search_text call, followed for as long as *)
(* its while loop goes on.  The histories of the fetch are left alone;     *)
(* gm.pages counts the requests modulo 2, so that a request is a step that *)
(* changes the state while the states stay finitely many.                  *)

\* records = self._search_text(client, query, ...) is called for the first
\* query/city pair of a configuration that has one, with a client
SearchInit ==
    /\ FunctionsIdle
    /\ RunIdle
    /\ DedupIdle
    /\ leads = <<>>
    /\ TDIdle
    /\ a_adapter = "google_maps"
    /\ a_calls = 1
    /\ a_pc = "paging"
    /\ a_out = <<>>
    /\ \E cfg \in GMConfigs :
         /\ cfg.search_queries # <<>>
         /\ cfg.api_key
         /\ gm = [GMFresh(cfg) EXCEPT !.qi = 1, !.ci = 1]

\* `while fetched < max_results` holds: one more pass
InSearchLoop ==
    /\ a_pc = "paging"
    /\ gm.fetched < gm.cfg.max_results_per_query

\* client.places() raises: log, break
SearchPageRaises ==
    /\ InSearchLoop
    /\ a_pc' = "collect"
    /\ gm' = [gm EXCEPT !.pages = (@ + 1) % 2]
    /\ UNCHANGED <<a_adapter, a_calls, a_out, td, dedupVars, runVars>>
    /\ UNCHANGED fnVars

\* client.places() returns a page: break when it is empty or has no token
SearchPageReturns ==
    /\ InSearchLoop
    /\ \E resp \in GMResponses :
         \E acc \in {AcceptPlaces(resp.results, gm.records, gm.fetched,
                                  gm.cfg.max_results_per_query)} :
            /\ gm' = [gm EXCEPT
                        !.pages = (@ + 1) % 2,
                        !.records = acc.records,
                        !.fetched = acc.fetched,
                        !.page_token = IF resp.results = <<>> THEN @
                                       ELSE resp.next_page_token]
            /\ a_pc' = IF resp.results = <<>> \/ ~resp.next_page_token
                       THEN "collect" ELSE "paging"
    /\ UNCHANGED <<a_adapter, a_calls, a_out, td, dedupVars, runVars>>
    /\ UNCHANGED fnVars

\* the loop is over, by a break or by `fetched < max_results` being false:
\* return records
SearchReturns ==
    /\ a_adapter = "google_maps"
    /\ \/ a_pc = "collect"
       \/ a_pc = "paging" /\ gm.fetched >= gm.cfg.max_results_per_query
    /\ a_pc' = "returned"
    /\ a_out' = gm.records
    /\ UNCHANGED <<a_adapter, a_calls, gm, td, dedupVars, runVars>>
    /\ UNCHANGED fnVars

SearchNext ==
    \/ SearchPageRaises
    \/ SearchPageReturns
    \/ SearchReturns

\* the thread that runs _search_text keeps running: every client.places()
\* call returns or raises (each network call blocks with a timeout)
SpecSearch == SearchInit /\ [][SearchNext]_vars /\ WF_vars(SearchNext)

----------------------------------------------------------------------------
(* Claims about the deduplicator, checked under SpecDedup *)

\* a company name that is empty or only whitespace
BlankName(name) == name = None \/ \A i \in 1..Len(name) : name[i] = SPACE

\* the row is in the candidate's city (case-insensitively)
InCandidateCity(row, rec) ==
    row.city # None /\ rec.city # None /\ Lower(row.city) = Lower(rec.city)

\* the two streets are equal case-insensitively
SameStreet(a, b) == a # None /\ b # None /\ Strip(Lower(a)) = Strip(Lower(b))

\* C6: for every record whose company name is empty or only whitespace, and
\* every match-field configuration, is_duplicate returns "not duplicate" and
\* issues no query to the system of record (so no query can fail either).
C6_BlankNameNotLookedUp ==
    (d_pc # "idle" /\ BlankName(d_rec.partner_name))
        => (d_pc = "returned" /\ d_result = FALSE /\ d_queries = 0)

\* a whitespace-only name was checked against a store that holds a lead
C6_Witness ==
    /\ d_pc = "returned"
    /\ d_rec.partner_name = <<SPACE, SPACE>>
    /\ "street" \in d_match_on
    /\ leads # <<>>
    /\ d_queries = 0

\* C7: with name (and optionally city) matching configured, a candidate is a
\* duplicate exactly when the system of record holds a lead (in the candidate's
\* city when city matching is configured) whose token-order-insensitive
\* similarity ratio to the candidate's name is >= 85.
C7_DuplicateIffSimilarLead ==
    ( /\ d_pc = "returned"
      /\ ~BlankName(d_rec.partner_name)
      /\ Strip(d_rec.partner_name) = d_rec.partner_name
      /\ "street" \notin d_match_on
      /\ ("city" \in d_match_on => Truthy(d_rec.city)) )
    => ( d_result <=>
           \E i \in 1..Len(leads) :
               /\ "city" \in d_match_on => InCandidateCity(leads[i], d_rec)
               /\ leads[i].partner_name # None
               /\ TokenSortRatio(d_rec.partner_name, leads[i].partner_name)
                      >= FUZZY_MATCH_THRESHOLD )

\* C8: when street matching is configured and the candidate has a street, the
\* candidate is a duplicate iff the system of record holds a name-similar lead
\* (one search_duplicate returned) whose street equals the candidate's street
\* case-insensitively.
C8_DuplicateIffSameStreet ==
    (d_pc = "returned" /\ "street" \in d_match_on /\ Truthy(d_rec.street))
    => ( d_result <=>
           \E i \in 1..Len(d_matches) :
               SameStreet(leads[d_matches[i].id].street, d_rec.street) )

----------------------------------------------------------------------------
(* Claims about run(), checked under Spec *)

\* the records the logged fetch() calls returned, in call order
RECURSIVE Contributed(_)
Contributed(log) ==
    IF log = <<>> THEN <<>>
    ELSE (IF Head(log).raised THEN <<>> ELSE Head(log).records)
             \o Contributed(Tail(log))

FetchLoopOver == r_ai > Len(ADAPTERS)

\* C1: in run(), whichever enabled adapters raise from fetch (after whatever
\* they had collected), every enabled adapter is invoked, exactly once, and the
\* aggregate handed to deduplication is exactly the records the adapters
\* returned; an adapter that raised contributes none.
C1_FailingAdapterIsIsolated ==
    FetchLoopOver =>
        /\ {r_fetchLog[k].adapter : k \in 1..Len(r_fetchLog)} = r_env.enabled
        /\ Len(r_fetchLog) = Cardinality(r_env.enabled)
        /\ all_records = Contributed(r_fetchLog)

\* the first adapter raised after collecting a record, the second returned
\* records, and they are what deduplication is given
C1_Witness ==
    /\ r_pc = "dedup"
    /\ Len(r_fetchLog) = 2
    /\ r_fetchLog[1].raised /\ r_fetchLog[1].records # <<>>
    /\ ~r_fetchLog[2].raised /\ Len(r_fetchLog[2].records) = 2
    /\ all_records = r_fetchLog[2].records

\* run() went through the persist loop and returned its summary
PersistDone == r_pc = "returned" /\ r_i > 0

\* C2 (as stated): with a cap N >= 0 and M > N surviving records, whatever the
\* create calls do, exactly N creation attempts occur and M-N records are
\* reported as skipped-by-limit.
C2_ExactlyNAttempts ==
    PersistDone =>
        \A n \in r_env.limit :
            Len(new_records) > n =>
                /\ Len(r_createLog) = n
                /\ summary.skipped_limit = Len(new_records) - n

\* C2 (amended): the cap counts created leads, not attempts.  With a cap N >= 0
\* and M > N surviving records, at most N leads are created; a failed create is
\* an error that does not count toward the cap; records are skipped-by-limit
\* only once N creates have succeeded, and skipped-by-limit is M minus the
\* attempts; when no create fails there are exactly N attempts and M-N skipped.
C2_CapCountsCreatedLeads ==
    PersistDone =>
        \A n \in r_env.limit :
            Len(new_records) > n =>
                /\ summary.created <= n
                /\ Len(r_createLog) = summary.created + summary.errors
                /\ summary.skipped_limit = Len(new_records) - Len(r_createLog)
                /\ summary.skipped_limit > 0 => summary.created = n
                /\ summary.errors = 0 =>
                       /\ Len(r_createLog) = n
                       /\ summary.skipped_limit = Len(new_records) - n

\* a run with cap 1 in which a create failed, one succeeded and one record
\* was skipped by the limit
C2_Witness ==
    /\ PersistDone
    /\ r_env.limit = {1}
    /\ Len(new_records) = 3
    /\ summary.errors = 1 /\ summary.created = 1 /\ summary.skipped_limit = 1

\* C4 (as stated): once run() has passed dependency resolution, no failure of
\* one unit of work (a fetch, a duplicate lookup, a state-code lookup, a
\* create) ends the run by an exception: run() returns its summary.
C4_NoAbortAfterResolution == r_raisedIn \in {"nothing", "from_env"}

\* the step in which a create_lead call raised
CreateFailedStep ==
    /\ Len(r_createLog') = Len(r_createLog) + 1
    /\ r_createLog'[Len(r_createLog')].call = "failed"

\* C5: in the persist loop, when the create call of one record fails, the
\* error count goes up by exactly one, the created count is unchanged, the
\* loop goes on with the next record, and the loop is only left by returning
\* the summary after every surviving record was attempted or skipped-by-limit.
C5_CreateFailureIsIsolated ==
    [][ /\ CreateFailedStep =>
              /\ r_counts'.errors = r_counts.errors + 1
              /\ r_counts'.created = r_counts.created
              /\ r_counts'.skipped_limit = r_counts.skipped_limit
              /\ r_pc' = "persist"
              /\ r_i' = r_i + 1
        /\ (r_pc = "persist" /\ r_pc' # "persist") =>
              /\ r_pc' = "returned"
              /\ Len(r_createLog') + r_counts'.skipped_limit = Len(new_records')
      ]_vars

\* a create failed and a later record was still created
C5_Witness ==
    /\ PersistDone
    /\ \E j, k \in 1..Len(r_createLog) :
          /\ j < k
          /\ r_createLog[j].call = "failed"
          /\ r_createLog[k].call = "ok"

----------------------------------------------------------------------------
(* Properties of the adapters' fetch *)

\* fetch has returned its list to the caller
FetchReturned == a_pc = "returned"

\* the records in the order the dedup loop of fetch met them
Processed == IF a_adapter = "google_maps" THEN gm.searched ELSE td.parsed

\* the in-run dedup key of a record
InRunKey(rec) ==
    IF a_adapter = "google_maps"
    THEN (IF rec.place_id # None /\ rec.place_id # <<>> THEN rec.place_id
          ELSE Lower(rec.partner_name))
    ELSE Lower(rec.partner_name)

\* the first record of the processing order that carries the key
FirstWithKey(key) ==
    Processed[CHOOSE i \in 1..Len(Processed) :
                 /\ InRunKey(Processed[i]) = key
                 /\ \A j \in 1..(i - 1) : InRunKey(Processed[j]) # key]

\* C3: fetch returns a list and never propagates an exception to its caller,
\* whatever the configuration, the API key and the outcome of the requests.
C3_FetchNeverRaises == a_pc # "raised"

\* C9: in the output of one fetch no two records share the in-run dedup key
\* (place id, or lower-cased name without one, for google_maps; lower-cased
\* name for trade_data), and each record kept is the first one of the
\* processing order that carries its key.
C9_OneRecordPerKeyFirstWins ==
    FetchReturned =>
        /\ \A i, j \in 1..Len(a_out) :
             i # j => InRunKey(a_out[i]) # InRunKey(a_out[j])
        /\ \A i \in 1..Len(a_out) :
             a_out[i] = FirstWithKey(InRunKey(a_out[i]))

\* two different results with one place id were searched and the first is kept
C9_Witness ==
    /\ FetchReturned
    /\ a_adapter = "google_maps"
    /\ \E i, j \in 1..Len(gm.searched) :
         /\ i < j
         /\ gm.searched[i] # gm.searched[j]
         /\ InRunKey(gm.searched[i]) = InRunKey(gm.searched[j])
         /\ \E k \in 1..Len(a_out) : a_out[k] = gm.searched[i]

\* the name contains the fragment, case-insensitively
NameContainsFragment(name, op) == Contains(Lower(name), Lower(op))

\* the name is contained in the fragment, case-insensitively
NameWithinFragment(name, op) == Contains(Lower(op), Lower(name))

\* C10 (as stated): no record of the output of google_maps' fetch has a name
\* that contains a configured excluded fragment or is contained in one.
C10_ContainsOrContainedDropped ==
    (FetchReturned /\ a_adapter = "google_maps") =>
        \A k \in 1..Len(a_out) :
          \A i \in 1..Len(gm.cfg.exclude_operators) :
            /\ ~NameContainsFragment(a_out[k].partner_name, gm.cfg.exclude_operators[i])
            /\ ~NameWithinFragment(a_out[k].partner_name, gm.cfg.exclude_operators[i])

\* C10 (amended): no record of the output of google_maps' fetch has a name that
\* contains a configured excluded fragment; a searched result whose name
\* contains no fragment, the first with its key, is in the output even when its
\* name is contained in a fragment.
C10_ContainingFragmentDropped ==
    (FetchReturned /\ a_adapter = "google_maps") =>
        /\ \A k \in 1..Len(a_out) :
             \A i \in 1..Len(gm.cfg.exclude_operators) :
               ~NameContainsFragment(a_out[k].partner_name, gm.cfg.exclude_operators[i])
        /\ \A n \in 1..Len(gm.searched) :
             (/\ \A i \in 1..Len(gm.cfg.exclude_operators) :
                   ~NameContainsFragment(gm.searched[n].partner_name,
                                         gm.cfg.exclude_operators[i])
              /\ \A m \in 1..(n - 1) :
                   InRunKey(gm.searched[m]) # InRunKey(gm.searched[n]))
             => \E k \in 1..Len(a_out) : a_out[k] = gm.searched[n]

\* a searched result whose name contains a fragment was dropped while another
\* result was kept
C10_Witness ==
    /\ FetchReturned
    /\ a_adapter = "google_maps"
    /\ a_out # <<>>
    /\ \E n \in 1..Len(gm.searched) :
         /\ \E i \in 1..Len(gm.cfg.exclude_operators) :
              NameContainsFragment(gm.searched[n].partner_name,
                                   gm.cfg.exclude_operators[i])
         /\ \A k \in 1..Len(a_out) : a_out[k] # gm.searched[n]

----------------------------------------------------------------------------
(* Properties of the value-computing functions, checked under SpecFunctions *)

\* the call of the function `fn` has returned
Returned(fn) == f_fn = fn /\ f_pc = "returned"

\* the optional text fields of a record that the system of record stores
OptionalTextFields ==
    {"street", "city", "zip", "phone", "website", "description", "x_data_source",
     "x_import_source_country", "x_current_supplier", "x_property_type"}

\* the optional boolean and integer fields that the system of record stores
OptionalScalarFields == {"x_already_importing", "x_estimated_spaces"}

\* the fields of a record that are not stored
MetadataFields == {"place_id", "rating", "raw"}

\* C11: the payload of to_odoo_values holds the key of an optional field iff
\* the field has a present value, with that value: an unset (or empty) field is
\* left out, x_already_importing = False is written as False, and place_id,
\* rating and raw are never written.
C11_PayloadHoldsPresentFieldsOnly ==
    Returned("to_odoo_values") =>
        /\ \A k \in OptionalTextFields :
             /\ (k \in DOMAIN f_ret) <=> (f_args.rec[k] # None /\ f_args.rec[k] # <<>>)
             /\ k \in DOMAIN f_ret => f_ret[k] = f_args.rec[k]
        /\ \A k \in OptionalScalarFields :
             /\ (k \in DOMAIN f_ret) <=> (f_args.rec[k] # {})
             /\ k \in DOMAIN f_ret => f_ret[k] \in f_args.rec[k]
        /\ ("state_id" \in DOMAIN f_ret) <=> (f_args.state_id # {})
        /\ ("country_id" \in DOMAIN f_ret) <=> (f_args.country_id # {})
        /\ DOMAIN f_ret \cap MetadataFields = {}

\* a record with x_already_importing = False, a place id and no street was
\* converted, and False is in the payload
C11_Witness ==
    /\ Returned("to_odoo_values")
    /\ f_args.rec.x_already_importing = {FALSE}
    /\ f_args.rec.place_id # None
    /\ f_args.rec.street = None
    /\ "x_already_importing" \in DOMAIN f_ret
    /\ f_ret.x_already_importing = FALSE
    /\ "street" \notin DOMAIN f_ret


\* the element the i-th name selector found has text
HasText(card, i) == card.name_matches[i] # <<>> /\ card.name_matches[i][1].text # <<>>

\* the positions of the non-empty data-* attributes of the element the i-th
\* name selector found
DataAttrs(card, i) ==
    IF card.name_matches[i] = <<>> THEN {}
    ELSE {k \in 1..Len(card.name_matches[i][1].attrs) :
            /\ card.name_matches[i][1].attrs[k].is_data
            /\ card.name_matches[i][1].attrs[k].value # <<>>}

\* the least element of a non-empty set of numbers
Least(S) == CHOOSE i \in S : \A j \in S : i <= j

\* the text of the card's first link, <<>> without a link or with an empty one
LinkName(card) ==
    IF card.link # <<>> /\ card.link[1] # <<>> THEN <<card.link[1]>> ELSE <<>>

PartsOfAddress == StrippedParts(Strip(StripCountry(f_args)))

\* the token is a state code alone: two capital letters
IsStateAlone(tok) == Len(tok) = 2 /\ IsUpperLetter(tok[1]) /\ IsUpperLetter(tok[2])

\* the token is a state code, a space and a five-digit postal code
IsStateAndZip(tok) ==
    /\ Len(tok) = 8
    /\ IsUpperLetter(tok[1]) /\ IsUpperLetter(tok[2])
    /\ tok[3] = SPACE
    /\ \A i \in 4..8 : IsDigit(tok[i])

\* the state code and postal code returned are those of the state/zip token
StateZipFrom(tok) ==
    /\ IsStateAlone(tok) => f_ret.state_code = tok /\ f_ret.zip = None
    /\ IsStateAndZip(tok) =>
          f_ret.state_code = SubSeq(tok, 1, 2) /\ f_ret.zip = SubSeq(tok, 4, 8)
    /\ (Len(tok) < 2 \/ ~IsUpperLetter(tok[1]) \/ ~IsUpperLetter(tok[2])) =>
          f_ret.state_code = None /\ f_ret.zip = None

\* C13: parse_google_address maps a non-empty address, once its trailing
\* country token is stripped, by its number of comma-separated parts: with 3 or
\* more, part 0 is the street, part 1 the city, part 2 the state/zip token; with
\* 2, part 0 is the city, part 1 the state/zip token, the street is None; with
\* 1 only the city is set; a state/zip token without a postal code gives the
\* state code with zip None.
C13_AddressMappedByPartCount ==
    (Returned("parse_google_address") /\ f_args # <<>>) =>
        /\ Len(PartsOfAddress) >= 3 =>
              /\ f_ret.street = PartsOfAddress[1]
              /\ f_ret.city = PartsOfAddress[2]
              /\ StateZipFrom(PartsOfAddress[3])
        /\ Len(PartsOfAddress) = 2 =>
              /\ f_ret.street = None
              /\ f_ret.city = PartsOfAddress[1]
              /\ StateZipFrom(PartsOfAddress[2])
        /\ Len(PartsOfAddress) = 1 =>
              /\ f_ret.street = None
              /\ f_ret.city = PartsOfAddress[1]
              /\ f_ret.state_code = None
              /\ f_ret.zip = None

\* "a, NY, USA" was parsed: city "a", state "NY", no street, no postal code
C13_Witness ==
    /\ Returned("parse_google_address")
    /\ f_args = <<97, COMMA, SPACE, 78, 89, COMMA, SPACE, 85, 83, 65>>
    /\ f_ret = [street |-> None, city |-> <<97>>, state_code |-> <<78, 89>>, zip |-> None]


\* the i-th lookup of _get_cached went to the network
OverNetwork(i) == td.requests[i].via \in {"network", "network-failed"}

\* C14 (as stated): within one fetch of trade_data no URL is requested over
\* the network more than once, whatever the outcome of its first request.
C14_NoUrlRequestedTwice ==
    a_adapter = "trade_data" =>
        \A i, j \in 1..Len(td.requests) :
            (i < j /\ td.requests[i].url = td.requests[j].url /\ OverNetwork(i))
                => ~OverNetwork(j)

\* C14 (amended): within one fetch of trade_data a URL whose request succeeded
\* is never requested again, every later lookup of it being served from the
\* cache; in the first fetch of an adapter instance a lookup is served from
\* the cache only after such a success, so a URL whose request failed is
\* requested again at its next lookup.
C14_FetchedUrlNotRequestedAgain ==
    a_adapter = "trade_data" =>
        /\ \A i, j \in 1..Len(td.requests) :
             (i < j /\ td.requests[i].url = td.requests[j].url
                    /\ td.requests[i].via # "network-failed")
                => td.requests[j].via = "cache"
        /\ \A j \in 1..Len(td.requests) :
             (a_calls = 1 /\ td.requests[j].via = "cache") =>
                \E i \in 1..(j - 1) : /\ td.requests[i].url = td.requests[j].url
                                      /\ td.requests[i].via = "network"

\* two codes reached one URL: the first lookup fetched it, the second was
\* served from the cache
C14_Witness ==
    /\ a_adapter = "trade_data"
    /\ FetchReturned
    /\ \E i, j \in 1..Len(td.requests) :
         /\ i < j
         /\ td.requests[i].url = td.requests[j].url
         /\ td.requests[i].via = "network"
         /\ td.requests[j].via = "cache"


\* the primary page of the lookup was retrieved
PrimaryRetrieved(e) == e.primary # <<>>

\* the records the cards of a page yield under the adapter's exclusion list
RecordsOn(page) == ParseCompanyCards(page, UpperAll(td.cfg.exclude_suppliers_from))

\* C15 (as stated): for each code the fallback URL is looked up iff the primary
\* page was retrieved and held zero cards; with at least one card on the
\* primary page the fallback URL is never requested.
C15_FallbackIffZeroCards ==
    a_adapter = "trade_data" =>
        \A n \in 1..Len(td.by_code) :
            td.by_code[n].fallback_asked <=>
                (PrimaryRetrieved(td.by_code[n]) /\ td.by_code[n].primary[1] = <<>>)

\* C15 (amended): for each code the fallback URL is looked up iff the primary
\* page was retrieved and yielded zero records, that is no card with a name
\* that the exclusion filter keeps; with at least one record the fallback URL
\* is never requested and the records are those of the primary page; the
\* fallback page, when retrieved, is parsed by the same parser.
C15_FallbackIffZeroRecords ==
    a_adapter = "trade_data" =>
        \A n \in 1..Len(td.by_code) :
            /\ td.by_code[n].fallback_asked <=>
                 (/\ PrimaryRetrieved(td.by_code[n])
                  /\ RecordsOn(td.by_code[n].primary[1]) = <<>>)
            /\ (/\ PrimaryRetrieved(td.by_code[n])
                /\ RecordsOn(td.by_code[n].primary[1]) # <<>>)
                 => td.by_code[n].records = RecordsOn(td.by_code[n].primary[1])
            /\ (td.by_code[n].fallback_asked /\ td.by_code[n].fallback # <<>>)
                 => td.by_code[n].records = RecordsOn(td.by_code[n].fallback[1])

\* a primary page with cards but no record sent the code to the fallback URL,
\* whose page gave its records
C15_Witness ==
    /\ a_adapter = "trade_data"
    /\ \E n \in 1..Len(td.by_code) :
         /\ PrimaryRetrieved(td.by_code[n])
         /\ td.by_code[n].primary[1] # <<>>
         /\ td.by_code[n].fallback_asked
         /\ td.by_code[n].records # <<>>

----------------------------------------------------------------------------
(* Further properties of run(), checked under Spec *)

\* run() has got past the lookup of the stage and country identifiers
IdsLookedUp == r_pc \notin {"connect", "resolve"} /\ r_raisedIn # "from_env"

\* run() returned right after the lookup of the identifiers: no adapter was
\* asked, nothing was created
StoppedAtIds ==
    /\ r_pc = "returned"
    /\ r_ai = 0
    /\ r_fetchLog = <<>>
    /\ r_createLog = <<>>

\* C16 (as stated): in non-preview mode a stage or country identifier that
\* cannot be resolved stops the run before any fetch and any create; in
\* dry-run mode the run proceeds.
C16_MissingIdStopsRun ==
    IdsLookedUp =>
        (StoppedAtIds <=>
            (~r_env.dry_run /\ (r_ids.stage = {} \/ r_ids.country = {})))

\* C16 (amended): in non-preview mode a stage identifier that cannot be
\* resolved stops the run before any fetch and any create, with one error; in
\* dry-run mode it does not; a country identifier that cannot be resolved
\* stops the run in neither mode.
C16_MissingStageStopsRun ==
    IdsLookedUp =>
        /\ StoppedAtIds <=> (~r_env.dry_run /\ r_ids.stage = {})
        /\ StoppedAtIds => summary.errors = 1 /\ summary.created = 0

\* a non-preview run without a country identifier created a lead
C16_Witness ==
    /\ r_pc = "returned"
    /\ ~r_env.dry_run
    /\ r_ids.country = {}
    /\ r_ids.stage # {}
    /\ summary.created >= 1


\* a credential the run needs is missing: those of the system of record, or
\* the API key of google_maps, enabled with queries configured
CredentialMissing ==
    \/ ~r_env.creds
    \/ "google_maps" \in r_env.enabled /\ ~r_env.gm_api_key

\* run() is over, by a return or by an exception
RunOver == r_pc \in {"returned", "raised"}

\* a create call of the run succeeded
LeadCreated == \E n \in 1..Len(r_createLog) : r_createLog[n].call = "ok"

\* C17: when a credential required by the run is missing (the system-of-record
\* credentials, or the API key of an enabled google_maps with queries), the run
\* ends with a non-zero exit code and no lead is created.
C17_MissingCredentialAborts ==
    (RunOver /\ CredentialMissing) => (exit_code = {1} /\ ~LeadCreated)


\* the number of records the persist loop lets through a cap
WithinCap(n, limit) == IF limit = {} THEN n ELSE Min(n, CHOOSE c \in limit : TRUE)

\* one step of a dry run writes nothing, makes no create call and counts no
\* error; the step that returns the summary of a full pass reports every
\* surviving record within the cap as created
DryRunStep ==
    r_env.dry_run =>
        /\ leads' = leads
        /\ \A n \in 1..Len(r_createLog') : r_createLog'[n].call = "none"
        /\ r_counts'.errors = 0
        /\ r_pc' = "returned" =>
             /\ summary'.errors = 0
             /\ summary'.created = WithinCap(Len(new_records), r_env.limit)
             /\ Len(r_createLog') = summary'.created

\* C18: in dry-run mode run() never issues a create call to the system of
\* record: each surviving record within the cap is only counted as created,
\* and the error count stays 0.
C18_DryRunCreatesNothing == [][DryRunStep]_vars

\* a dry run ended having counted one record as created and skipped another by
\* the cap
C18_Witness ==
    /\ r_pc = "returned"
    /\ r_env.dry_run
    /\ summary.created = 1
    /\ summary.skipped_limit >= 1
    /\ Len(r_createLog) = 1


\* the single-record check says that the i-th fetched record is a duplicate
IsDup(i) == IsDuplicate(all_records[i], r_env.match_on, leads).dup

\* `out` is the records of all_records whose check gave `verdict`, in the
\* order of all_records
SameOrderSelection(out, verdict) ==
    LET picked == {i \in 1..Len(all_records) : IsDup(i) = verdict}
    IN  /\ Len(out) = Cardinality(picked)
        /\ \A i \in picked :
             out[Cardinality({j \in picked : j < i}) + 1] = all_records[i]

\* C19: split_new_and_duplicate partitions its input: every record is in
\* exactly one of the two lists, in the duplicate list iff is_duplicate is true
\* for it, and each list keeps the order of the input.
C19_SplitPartitionsInOrder ==
    r_pc = "state_ids" =>
        /\ Len(new_records) + Len(duplicate_records) = Len(all_records)
        /\ SameOrderSelection(new_records, FALSE)
        /\ SameOrderSelection(duplicate_records, TRUE)

\* three records were split into two new ones and a duplicate between them
C19_Witness ==
    /\ r_pc = "state_ids"
    /\ Len(all_records) = 3
    /\ IsDup(2) /\ ~IsDup(1) /\ ~IsDup(3)
    /\ new_records = <<all_records[1], all_records[3]>>
    /\ duplicate_records = <<all_records[2]>>
    /\ all_records[1] # all_records[3]


\* the five counts of a run summary
SummaryKeys == {"total_fetched", "created", "skipped_dedup", "skipped_limit", "errors"}

\* C20: every run() that returns, on every path (hard stop on a missing
\* identifier, no records fetched, full pass), returns a summary holding all
\* five counts: total_fetched, created, skipped_dedup, skipped_limit, errors.
C20_SummaryHasAllCounts == r_pc = "returned" => SummaryKeys \subseteq DOMAIN summary

----------------------------------------------------------------------------
(* The exit code of main(), checked under Spec *)

\* a create_lead call of the run raised
CreateFailed == \E n \in 1..Len(r_createLog) : r_createLog[n].call = "failed"

\* C21 (as stated): for every run that returns a summary, the exit code is
\* non-zero iff at least one create error occurred during that run.
C21_ExitNonZeroIffCreateError ==
    r_pc = "returned" => (exit_code = {1} <=> CreateFailed)

\* C21 (amended): for every run that returns a summary, the exit code is
\* non-zero iff the summary counts an error: a create call raised, or the run
\* was stopped for the missing stage identifier before any adapter was asked.
C21_ExitNonZeroIffErrorCounted ==
    r_pc = "returned" =>
        /\ exit_code = {1} <=> (CreateFailed \/ StoppedAtIds)
        /\ exit_code = {1} <=> summary.errors > 0
        /\ exit_code \in {{0}, {1}}

\* a run that created a lead and failed to create another exits with 1
C21_Witness ==
    /\ r_pc = "returned"
    /\ CreateFailed
    /\ summary.created >= 1
    /\ exit_code = {1}

----------------------------------------------------------------------------
(* The order of the units of work and of the adapters, checked under SpecPipeline *)

\* the query/city pairs of the configuration, queries outermost, each in the
\* order of its list
ConfiguredUnits(cfg) ==
    LET nc == Len(GMCities(cfg))
    IN  [k \in 1..(Len(cfg.search_queries) * nc) |->
            [qi |-> ((k - 1) \div nc) + 1, ci |-> ((k - 1) % nc) + 1]]

IsPrefixOf(a, b) == Len(a) <= Len(b) /\ a = SubSeq(b, 1, Len(a))

RECURSIVE IsSubsequenceOf(_, _)
IsSubsequenceOf(a, b) ==
    IF a = <<>> THEN TRUE
    ELSE IF b = <<>> THEN FALSE
    ELSE IF Head(a) = Head(b) THEN IsSubsequenceOf(Tail(a), Tail(b))
    ELSE IsSubsequenceOf(a, Tail(b))

\* the query/city pairs google_maps searched, in the order of the searches
UnitsSearched == [i \in 1..Len(gm.units) |-> [qi |-> gm.units[i].qi, ci |-> gm.units[i].ci]]

\* the codes the passes of trade_data's loop were given, in the order of the passes
CodesFetched == [i \in 1..Len(td.by_code) |-> td.by_code[i].hs_code]

\* the position in ADAPTERS of the adapter of the k-th fetch() call of run()
RegistryIndexOf(k) == CHOOSE i \in 1..Len(ADAPTERS) : ADAPTERS[i] = r_fetchLog[k].adapter

\* C22: within one adapter the units of work (query/city pairs, or codes) are
\* processed in the order of the configuration, all of them when fetch
\* returns after its loop, and the output of fetch is a subsequence of the
\* per-unit results concatenated in that order; run() calls the enabled
\* adapters in the order of ADAPTERS and its aggregate is their returned
\* records concatenated in that order.
C22_OrderOfUnitsAndAdapters ==
    /\ a_adapter = "google_maps" =>
         /\ IsPrefixOf(UnitsSearched, ConfiguredUnits(gm.cfg))
         /\ IsSubsequenceOf(gm.all_records, gm.searched)
         /\ (a_pc = "returned" /\ gm.cfg.search_queries # <<>>) =>
                UnitsSearched = ConfiguredUnits(gm.cfg)
    /\ a_adapter = "trade_data" =>
         /\ IsPrefixOf(CodesFetched, td.cfg.hs_codes)
         /\ IsSubsequenceOf(td.all_records, td.parsed)
         /\ a_pc = "returned" => CodesFetched = td.cfg.hs_codes
    /\ FetchReturned => IsSubsequenceOf(a_out, Processed)
    /\ \A k \in 1..Len(r_fetchLog) :
         /\ r_fetchLog[k].adapter \in r_env.enabled
         /\ \A j \in 1..(k - 1) : RegistryIndexOf(j) < RegistryIndexOf(k)
    /\ r_pc \notin {"off", "connect", "resolve"} => all_records = Contributed(r_fetchLog)

\* google_maps searched two query/city pairs, the second pair returned a
\* record, and its fetch returned fewer records than the pairs had yielded
C22_Witness ==
    /\ FetchReturned
    /\ a_adapter = "google_maps"
    /\ Len(gm.units) = 2
    /\ Len(gm.searched) = 3
    /\ Len(a_out) = 2
    /\ a_out[2] = gm.searched[3]

----------------------------------------------------------------------------
(* What one fetch() call leaves to the next, checked under SpecAdapters *)

\* the j-th lookup of this fetch() call was answered from the cache although
\* no earlier lookup of this call had put the URL there
ServedFromEarlierCall(j) ==
    /\ td.requests[j].via = "cache"
    /\ \A i \in 1..(j - 1) :
         ~(td.requests[i].url = td.requests[j].url /\ td.requests[i].via = "network")

\* C23: the URL cache of trade_data and the in-run dedup set of google_maps
\* are empty at the start of every fetch() call, and nothing cached or seen in
\* an earlier call on the same adapter instance affects a later one: every
\* lookup answered from the cache follows a request of the same URL made in
\* the same call.
C23_NothingKeptBetweenFetches ==
    /\ a_pc = "start" =>
         /\ td.url_cache = <<>>
         /\ td.seen_names = {}
         /\ gm.seen_place_ids = {}
    /\ a_adapter = "trade_data" =>
         \A j \in 1..Len(td.requests) : ~ServedFromEarlierCall(j)

----------------------------------------------------------------------------
(* Pagination of one query of google_maps, checked under SpecAdapters *)

\* the positions of the client.places() calls in the events of the fetch
PlacesAt == {i \in 1..Len(gm.events) : gm.events[i] = "places"}

\* for each client.places() call of events, in order: whether the event right
\* before it is the delay of 2 s (prev is the event before Head(events))
RECURSIVE ContinuationDelays(_, _)
ContinuationDelays(events, prev) ==
    IF events = <<>> THEN <<>>
    ELSE (IF Head(events) = "places" THEN <<prev = "sleep(2)">> ELSE <<>>)
         \o ContinuationDelays(Tail(events), Head(events))

\* the k-th request is not the first one of its query
IsContinuation(k) == k > 1 /\ gm.requests[k - 1].unit = gm.requests[k].unit

\* C24: for every query google_maps accepts at most max_results_per_query
\* records; a further page is requested only while that cap is unmet and the
\* previous response had results and a continuation token; the delay of 2 s
\* comes right before each continuation request (and before no first
\* request); no page is requested after an empty page or a failed request.
C24_PagingFollowsTokenUnderCap ==
    a_adapter = "google_maps" =>
        /\ Len(gm.records) = gm.fetched
        /\ gm.fetched <= gm.cfg.max_results_per_query
        /\ LET ContinuationDelayBefore == ContinuationDelays(gm.events, "start")
           IN
           /\ Len(ContinuationDelayBefore) = Len(gm.requests)
           /\ \A k \in 1..Len(gm.requests) :
                /\ gm.requests[k].fetched_before < gm.cfg.max_results_per_query
                /\ gm.requests[k].fetched_after <= gm.cfg.max_results_per_query
                /\ IF IsContinuation(k)
                   THEN /\ ~gm.requests[k - 1].raised
                        /\ gm.requests[k - 1].results # <<>>
                        /\ gm.requests[k - 1].next_page_token
                        /\ gm.requests[k - 1].fetched_after < gm.cfg.max_results_per_query
                        /\ gm.requests[k].page_token
                        /\ ContinuationDelayBefore[k]
                   ELSE /\ ~gm.requests[k].page_token
                        /\ ~ContinuationDelayBefore[k]

\* a query whose first page left the cap unmet and carried a token was given
\* a second request, which filled the cap
C24_Witness ==
    /\ a_adapter = "google_maps"
    /\ Len(gm.requests) = 2
    /\ IsContinuation(2)
    /\ gm.requests[1].fetched_after = 1
    /\ Len(gm.requests[2].results) = 2
    /\ gm.requests[2].fetched_after = 2
    /\ gm.cfg.max_results_per_query = 2


\* a delay: the 2 s before a continuation request, or REQUEST_DELAY after a query
IsDelay(e) == e \in {"sleep(2)", "sleep(REQUEST_DELAY)"}

\* C25: in every fetch of google_maps at least one delay lies between any two
\* consecutive client.places() calls, of one query or of successive
\* query/city pairs, whether the earlier call returned or raised.
C25_DelayBetweenPageRequests ==
    a_adapter = "google_maps" =>
        \A i, j \in PlacesAt :
            i < j => \E m \in (i + 1)..(j - 1) : IsDelay(gm.events[m])

\* the request of the first query/city pair raised and the second pair was
\* requested after a delay
C25_Witness ==
    /\ a_adapter = "google_maps"
    /\ Len(gm.requests) = 2
    /\ gm.requests[1].raised
    /\ gm.requests[2].unit = 2
    /\ gm.events = <<"places", "sleep(REQUEST_DELAY)", "places">>


\* the records of the results that have a name, in the order of the results
RECURSIVE NamedRecords(_)
NamedRecords(results) ==
    IF results = <<>> THEN <<>>
    ELSE PlaceToRecord(Head(results)) \o NamedRecords(Tail(results))

\* the records of the pages that requests lo..hi returned
RECURSIVE RecordsOfPages(_, _)
RecordsOfPages(lo, hi) ==
    IF lo > hi THEN <<>>
    ELSE NamedRecords(gm.requests[lo].results) \o RecordsOfPages(lo + 1, hi)

\* the first request of the query/city pair the k-th request belongs to
FirstOfUnit(k) ==
    CHOOSE m \in 1..k :
        /\ gm.requests[m].unit = gm.requests[k].unit
        /\ \A n \in 1..(m - 1) : gm.requests[n].unit # gm.requests[k].unit

\* C26: a client.places() call that raises ends only the pagination of its
\* query: the search of that query returns the records of its earlier pages,
\* the next request made is the first one of the next query/city pair, and
\* when fetch returns every remaining query/city pair has been requested.
C26_RequestErrorEndsOnlyItsQuery ==
    a_adapter = "google_maps" =>
        \A k \in 1..Len(gm.requests) :
            gm.requests[k].raised =>
                /\ k < Len(gm.requests) =>
                     /\ gm.requests[k + 1].unit = gm.requests[k].unit + 1
                     /\ ~gm.requests[k + 1].page_token
                /\ gm.requests[k].unit <= Len(gm.units) =>
                     gm.units[gm.requests[k].unit].records
                         = RecordsOfPages(FirstOfUnit(k), k - 1)
                /\ a_pc = "returned" =>
                     \A u \in (gm.requests[k].unit + 1)..Len(ConfiguredUnits(gm.cfg)) :
                         \E m \in (k + 1)..Len(gm.requests) : gm.requests[m].unit = u

\* the second request of the first query/city pair raised after its first
\* page had given a record; the record is in what fetch returned, and the
\* second pair was requested
C26_Witness ==
    /\ a_adapter = "google_maps"
    /\ a_pc = "returned"
    /\ Len(gm.requests) = 3
    /\ gm.requests[1].unit = 1 /\ ~gm.requests[1].raised
    /\ gm.requests[2].unit = 1 /\ gm.requests[2].raised
    /\ gm.requests[3].unit = 2
    /\ Len(gm.units[1].records) = 1
    /\ gm.units[1].records[1] \in {a_out[i] : i \in 1..Len(a_out)}

----------------------------------------------------------------------------
(* The supplier filter of trade_data, checked under SpecFunctions *)

\* the origin a comma-separated part of the supplier text names: its ISO code
\* in parentheses when it has one, else the part itself; upper-cased
OriginOf(part) ==
    IF IsoCodeAt(part) # {}
    THEN SubSeq(part, Least(IsoCodeAt(part)) + 1, Least(IsoCodeAt(part)) + 2)
    ELSE Upper(Strip(part))

\* the origins listed in a supplier text
ListedOrigins(text) ==
    {OriginOf(SplitComma(text)[i]) : i \in 1..Len(SplitComma(text))} \ {<<>>}

\* the card has a supplier text and every origin it lists is excluded
AllListedOriginsExcluded(card, exclude_from) ==
    /\ Truthy(card.supplier_text)
    /\ ListedOrigins(card.supplier_text) \subseteq
           {exclude_from[j] : j \in 1..Len(exclude_from)}

\* the records of the cards that have a name and are not to be dropped
RECURSIVE RecordsOfKeptCards(_, _)
RecordsOfKeptCards(cards, exclude_from) ==
    IF cards = <<>> THEN <<>>
    ELSE (IF AllListedOriginsExcluded(Head(cards), exclude_from) THEN <<>>
          ELSE ParseSingleCard(Head(cards)))
             \o RecordsOfKeptCards(Tail(cards), exclude_from)

\* C27: with a non-empty exclude set, _parse_company_cards drops a record iff
\* the card has a supplier text and every origin listed in that
\* comma-separated text is in the exclude set; a record with at least one
\* listed origin outside the exclude set is kept.
C27_DroppedIffAllOriginsExcluded ==
    (Returned("_parse_company_cards") /\ f_args.exclude_from # <<>>) =>
        f_ret = RecordsOfKeptCards(f_args.cards, f_args.exclude_from)

----------------------------------------------------------------------------
(* The counts of the summary, checked under Spec *)

\* the number of records of the persist loop whose create step ended as `call`
CreateCalls(call) ==
    Cardinality({n \in 1..Len(r_createLog) : r_createLog[n].call = call})

\* C28: when run() returns after its persist loop, total_fetched = created +
\* skipped_dedup + skipped_limit + errors, and created does not exceed a cap
\* that was given: every fetched record is either a duplicate or a new record,
\* and every new record was either skipped for the cap, or created (or would
\* have been, in a dry run), or failed to be created, whatever the create
\* calls did.
C28_EveryRecordCountedOnce ==
    PersistDone =>
        /\ summary.total_fetched = summary.created + summary.skipped_dedup
                                     + summary.skipped_limit + summary.errors
        /\ \A n \in r_env.limit : summary.created <= n
        /\ summary.total_fetched = Len(all_records)
        /\ Len(all_records) = Len(new_records) + Len(duplicate_records)
        /\ summary.skipped_dedup = Len(duplicate_records)
        /\ Len(new_records) = Len(r_createLog) + summary.skipped_limit
        /\ summary.created = CreateCalls("ok") + CreateCalls("none")
        /\ summary.errors = CreateCalls("failed")

\* a run counted one record in each of three categories
C28_Witness ==
    /\ PersistDone
    /\ summary.total_fetched = 3
    /\ summary.errors = 1
    /\ summary.created = 1
    /\ summary.skipped_limit + summary.skipped_dedup = 1

----------------------------------------------------------------------------
(* Termination of the pagination loop, checked under SpecSearch *)

\* C29: the pagination loop of one query terminates, whatever the search
\* service answers: _search_text returns, also when every page is non-empty,
\* carries a continuation token and yields no accepted record.
C29_PaginationTerminates == <>(a_pc = "returned")

----------------------------------------------------------------------------
(* Leads of one company created by one run, checked under Spec *)

\* the entries of the persist loop whose create_lead call returned
CreatedEntries == {n \in 1..Len(r_createLog) : r_createLog[n].call = "ok"}

\* the record the n-th entry of the persist loop was about
RecordOfEntry(n) == new_records[r_createLog[n].index]

\* the two records denote one company under the match rule: name similarity
\* of at least 85 and the same city
SameCompany(a, b) ==
    /\ TokenSortRatio(a.partner_name, b.partner_name) >= FUZZY_MATCH_THRESHOLD
    /\ InCandidateCity(a, b)

\* no fetch() call of the run returned two records of one company (each
\* adapter dedups its own output)
EachAdapterDeduped ==
    \A k \in 1..Len(r_fetchLog) :
        \A i, j \in 1..Len(r_fetchLog[k].records) :
            i # j => ~SameCompany(r_fetchLog[k].records[i], r_fetchLog[k].records[j])

\* C30: after a non-preview run no two leads created by that run denote the
\* same company under the match rule: when two adapters contribute one
\* company (each adapter's own output holding it once), at most one of the
\* two records is persisted.
C30_NoTwoLeadsOfOneCompany ==
    (r_pc = "returned" /\ ~r_env.dry_run /\ EachAdapterDeduped) =>
        \A m, n \in CreatedEntries :
            m # n => ~SameCompany(RecordOfEntry(m), RecordOfEntry(n))

====
